---------------------------- MODULE Spec2Model ----------------------------
(***************************************************************************)
(* Model of the review-extraction job (src/main.py): the validators, the   *)
(* retry wrapper, the body parser, the checkpoint store and the run of     *)
(* main() against a mailbox and a sheet.                                   *)
(*                                                                         *)
(* Text is a sequence of one-character strings, so that lowercasing,       *)
(* trimming and pattern matching are computed character by character.      *)
(***************************************************************************)
EXTENDS Integers, Sequences, FiniteSets, TLC

(***************************************************************************)
(* Text helpers: str.lower, str.strip, str.isdigit, slicing, rsplit.       *)
(***************************************************************************)
UpperChars == <<"A","B","C","D","E","F","G","H","I","J","K","L","M","N","O","P","Q","R","S","T","U","V","W","X","Y","Z","É","À">>
LowerChars == <<"a","b","c","d","e","f","g","h","i","j","k","l","m","n","o","p","q","r","s","t","u","v","w","x","y","z","é","à">>

Digits == {"0","1","2","3","4","5","6","7","8","9"}

\* str.lower() on one character
LowerChar(c) ==
    IF \E k \in 1..Len(UpperChars) : UpperChars[k] = c
    THEN LowerChars[CHOOSE k \in 1..Len(UpperChars) : UpperChars[k] = c]
    ELSE c

\* str.lower()
Lower(s) == [k \in 1..Len(s) |-> LowerChar(s[k])]

\* a character str.strip() removes and \s matches
IsSpace(c) == c \in {" ", "\n", "\t", "\r"}

\* s[a:b] with 0-based Python bounds already clipped to 0..len(s)
Slice(s, a, b) == IF b <= a THEN <<>> ELSE SubSeq(s, a + 1, b)

\* str.strip()
Strip(s) ==
    LET nonsp == {k \in 1..Len(s) : ~IsSpace(s[k])}
        Min(S) == CHOOSE x \in S : \A y \in S : x <= y
        Max(S) == CHOOSE x \in S : \A y \in S : x >= y
    IN IF nonsp = {} THEN <<>> ELSE SubSeq(s, Min(nonsp), Max(nonsp))

\* str.isdigit(): non-empty and every character a digit
IsDigit(s) == Len(s) > 0 /\ \A k \in 1..Len(s) : s[k] \in Digits

\* set(s): the distinct characters of s
CharSet(s) == {s[k] : k \in 1..Len(s)}

\* c in s
HasChar(s, c) == \E k \in 1..Len(s) : s[k] = c

\* position of the last occurrence of c in s (s contains c)
LastIndexOf(s, c) ==
    CHOOSE k \in 1..Len(s) : s[k] = c /\ \A j \in (k + 1)..Len(s) : s[j] # c

(***************************************************************************)
(* Configuration. config.json is not part of the sources; the keyword and  *)
(* domain sets are the inputs of the validators, fixed here to small       *)
(* examples. Entries are stored as the configuration file gives them.      *)
(***************************************************************************)
EMAIL_BLACKLIST == { <<"b","l","k","@","x",".","i","o">>,
                     <<"B","o","s","s","@","x",".","i","o">> }
SPAM_KEYWORDS == { <<"a","d","m","i","n">> }
DISPOSABLE_DOMAINS == { <<"y","o","p",".","i","o">> }
SUSPICIOUS_NAMES == { <<"t","e","s","t">> }
COMMENT_SPAM_EXACT == { <<"t","e","s","t">> }

API_MAX_RETRIES == 3
API_INITIAL_DELAY == 1

(***************************************************************************)
(* Validators. An argument is a text or the value None of Python.          *)
(***************************************************************************)
PyNone == <<"None">>

\* x or ""
OrEmpty(x) == IF x = PyNone THEN <<>> ELSE x

\* a split of the address at its first "@"
SplitAtFirst(email) ==
    CHOOSE k \in 1..Len(email) : email[k] = "@" /\ \A j \in 1..(k - 1) : email[j] # "@"

\* email.rsplit("@", 1): the position of the "@" that splits the address
SplitAt(email) == LastIndexOf(email, "@")

is_valid_email(email_raw) ==
    IF Len(OrEmpty(email_raw)) = 0 THEN FALSE
    ELSE
    LET email == Strip(Lower(email_raw)) IN
    IF email \in EMAIL_BLACKLIST THEN FALSE
    ELSE IF ~HasChar(email, "@") \/ ~HasChar(email, ".") THEN FALSE
    ELSE
    LET at == SplitAt(email)
        local_part == Slice(email, 0, at - 1)
        domain == Slice(email, at, Len(email))
    IN
    IF Len(local_part) < 3 THEN FALSE
    ELSE IF domain \in DISPOSABLE_DOMAINS THEN FALSE
    ELSE IF local_part \in SPAM_KEYWORDS THEN FALSE
    ELSE IF IsDigit(local_part) THEN FALSE
    ELSE IF Cardinality(CharSet(local_part)) <= 2 /\ Len(local_part) > 3 THEN FALSE
    ELSE TRUE

\* a check of the names as they are given, lowercased but not trimmed
is_valid_name_untrimmed(nom_raw, prenom_raw) ==
    LET nom == Lower(OrEmpty(nom_raw))
        prenom == Lower(OrEmpty(prenom_raw))
    IN
    IF Len(nom) <= 1 \/ Len(prenom) <= 1 THEN FALSE
    ELSE IF nom \in SUSPICIOUS_NAMES \/ prenom \in SUSPICIOUS_NAMES THEN FALSE
    ELSE IF IsDigit(nom) \/ IsDigit(prenom) THEN FALSE
    ELSE IF Cardinality(CharSet(nom)) <= 1 /\ Len(nom) > 1 THEN FALSE
    ELSE IF Cardinality(CharSet(prenom)) <= 1 /\ Len(prenom) > 1 THEN FALSE
    ELSE TRUE

\* a check of the last name alone
is_valid_name_last_only(nom_raw, prenom_raw) ==
    LET nom == Strip(Lower(OrEmpty(nom_raw)))
    IN
    IF Len(nom) <= 1 THEN FALSE
    ELSE IF nom \in SUSPICIOUS_NAMES THEN FALSE
    ELSE IF IsDigit(nom) THEN FALSE
    ELSE IF Cardinality(CharSet(nom)) <= 1 /\ Len(nom) > 1 THEN FALSE
    ELSE TRUE

is_valid_name(nom_raw, prenom_raw) ==
    LET nom == Strip(Lower(OrEmpty(nom_raw)))
        prenom == Strip(Lower(OrEmpty(prenom_raw)))
    IN
    IF Len(nom) <= 1 \/ Len(prenom) <= 1 THEN FALSE
    ELSE IF nom \in SUSPICIOUS_NAMES \/ prenom \in SUSPICIOUS_NAMES THEN FALSE
    ELSE IF IsDigit(nom) \/ IsDigit(prenom) THEN FALSE
    ELSE IF Cardinality(CharSet(nom)) <= 1 /\ Len(nom) > 1 THEN FALSE
    ELSE IF Cardinality(CharSet(prenom)) <= 1 /\ Len(prenom) > 1 THEN FALSE
    ELSE TRUE

is_valid_comment(commentaire) ==
    IF Len(OrEmpty(commentaire)) = 0 THEN TRUE
    ELSE IF Strip(Lower(commentaire)) \in COMMENT_SPAM_EXACT THEN FALSE
    ELSE TRUE

(***************************************************************************)
(* api_call_with_retry. The remote function is given by the outcome of     *)
(* each successive call: 200 is a normal return, 400..599 an HttpError     *)
(* with that status, 0 any other exception. The result records what the    *)
(* wrapper did: the number of calls, the delays slept, and whether it      *)
(* raised and what (-1: last_exception was still None when raised).        *)
(***************************************************************************)
Statuses == {200, 404, 429, 500, 503, 0}

\* a test of the status that forgets 429
AnyClientError(st) == 400 <= st /\ st < 500

IsPermanent(st) == 400 <= st /\ st < 500 /\ st # 429

RECURSIVE retry_loop(_, _, _, _, _, _)
retry_loop(max_retries, resp, attempt, delay, sleeps, last_exception) ==
    IF attempt >= max_retries
    THEN [raised |-> TRUE, error |-> last_exception, calls |-> attempt, sleeps |-> sleeps]
    ELSE
    LET st == resp[attempt + 1] IN
    IF st = 200
    THEN [raised |-> FALSE, error |-> -1, calls |-> attempt + 1, sleeps |-> sleeps]
    ELSE IF st # 0 /\ IsPermanent(st)
    THEN [raised |-> TRUE, error |-> st, calls |-> attempt + 1, sleeps |-> sleeps]
    ELSE IF attempt < max_retries - 1
    THEN retry_loop(max_retries, resp, attempt + 1, delay * 2, Append(sleeps, delay), st)
    ELSE retry_loop(max_retries, resp, attempt + 1, delay, sleeps, st)

api_call_with_retry(max_retries, initial_delay, resp) ==
    retry_loop(max_retries, resp, 0, initial_delay, <<>>, -1)

\* the outcomes of up to n successive calls of one remote function
RespSeqs(n) == [1..n -> Statuses]

(***************************************************************************)
(* Regular expressions as the re module matches them: a pattern is a       *)
(* sequence of nodes tried left to right with backtracking, greedy         *)
(* quantifiers longest first, lazy ones shortest first, alternatives in    *)
(* the order written. The patterns of parse_email_body are compiled with   *)
(* re.IGNORECASE, so a character node holds lowercase characters and       *)
(* compares them with the lowercased text character (the pattern of        *)
(* get_sender_name, compiled without it, names no letter).                 *)
(*   [k |-> "chr", set, q]  one of the characters of set                   *)
(*   [k |-> "nchr", set, q] a character outside set                        *)
(*   [k |-> "sp", q]        \s        [k |-> "nsp", q]   \S                *)
(*   [k |-> "any", q]       . under re.DOTALL                              *)
(*   [k |-> "alt", words]   (w1|w2|...) of literal words; a literal is the *)
(*                          alternation of one word                        *)
(*   [k |-> "open", g], [k |-> "close", g]   the bounds of group g         *)
(* q is "1", "?", "+", "*" or "+?".                                        *)
(***************************************************************************)
Chr(set, q) == [k |-> "chr", set |-> set, q |-> q, g |-> 0, words |-> <<>>]
NChr(set, q) == [k |-> "nchr", set |-> set, q |-> q, g |-> 0, words |-> <<>>]
Cls(kind, q) == [k |-> kind, set |-> {}, q |-> q, g |-> 0, words |-> <<>>]
Alt(words) == [k |-> "alt", set |-> {}, q |-> "1", g |-> 0, words |-> words]
Lit(w) == Alt(<<w>>)
Open(g) == [k |-> "open", set |-> {}, q |-> "1", g |-> g, words |-> <<>>]
Close(g) == [k |-> "close", set |-> {}, q |-> "1", g |-> g, words |-> <<>>]

NoMatch == [ok |-> FALSE, end |-> 0, caps |-> <<>>]

\* does node nd accept the single character c
Accepts(nd, c) ==
    CASE nd.k = "chr" -> LowerChar(c) \in nd.set
      [] nd.k = "nchr" -> LowerChar(c) \notin nd.set
      [] nd.k = "sp" -> IsSpace(c)
      [] nd.k = "nsp" -> ~IsSpace(c)
      [] nd.k = "any" -> TRUE
      [] OTHER -> FALSE

\* the literal word w is at position pos of text, case-insensitively
WordAt(text, pos, w) ==
    /\ pos + Len(w) <= Len(text)
    /\ \A j \in 1..Len(w) : LowerChar(text[pos + j]) = LowerChar(w[j])

\* the length of the longest run of characters from pos that node nd accepts
RunLen(text, pos, nd) ==
    LET refused == {j \in (pos + 1)..Len(text) : ~Accepts(nd, text[j])} IN
    IF refused = {} THEN Len(text) - pos
    ELSE (CHOOSE j \in refused : \A q \in refused : j <= q) - pos - 1

RECURSIVE MatchFrom(_, _, _, _, _)
RECURSIVE TryAlt(_, _, _, _, _, _)

\* node n repeated lo..hi times: the first count, longest first when greedy and
\* shortest first when lazy, after which the rest of the pattern matches
TryCount(re, text, n, pos, caps, lo, hi, greedy) ==
    LET good == {c \in lo..hi : MatchFrom(re, text, n + 1, pos + c, caps).ok} IN
    IF good = {} THEN NoMatch
    ELSE LET c == IF greedy
                  THEN CHOOSE x \in good : \A y \in good : x >= y
                  ELSE CHOOSE x \in good : \A y \in good : x <= y
         IN MatchFrom(re, text, n + 1, pos + c, caps)

\* the alternatives j, j + 1, ... of node n, in that order
TryAlt(re, text, n, pos, caps, j) ==
    IF j > Len(re[n].words) THEN NoMatch
    ELSE
    LET w == re[n].words[j]
        r == IF WordAt(text, pos, w)
             THEN MatchFrom(re, text, n + 1, pos + Len(w), caps)
             ELSE NoMatch
    IN IF r.ok THEN r ELSE TryAlt(re, text, n, pos, caps, j + 1)

\* match nodes n.. of re against text from position pos (characters consumed)
MatchFrom(re, text, n, pos, caps) ==
    IF n > Len(re) THEN [ok |-> TRUE, end |-> pos, caps |-> caps]
    ELSE
    LET nd == re[n] IN
    CASE nd.k = "open" ->
            MatchFrom(re, text, n + 1, pos, [caps EXCEPT ![nd.g] = <<pos, pos>>])
      [] nd.k = "close" ->
            MatchFrom(re, text, n + 1, pos, [caps EXCEPT ![nd.g] = <<caps[nd.g][1], pos>>])
      [] nd.k = "alt" -> TryAlt(re, text, n, pos, caps, 1)
      [] OTHER ->
            LET m == RunLen(text, pos, nd) IN
            CASE nd.q = "1" ->
                    IF m >= 1 THEN MatchFrom(re, text, n + 1, pos + 1, caps) ELSE NoMatch
              [] nd.q = "?" ->
                    TryCount(re, text, n, pos, caps, 0, IF m >= 1 THEN 1 ELSE 0, TRUE)
              [] nd.q = "+" -> TryCount(re, text, n, pos, caps, 1, m, TRUE)
              [] nd.q = "*" -> TryCount(re, text, n, pos, caps, 0, m, TRUE)
              [] nd.q = "+?" -> TryCount(re, text, n, pos, caps, 1, m, FALSE)

NoCaps == [g \in 1..3 |-> <<0, 0>>]

\* re.match: the pattern at the start of text
ReMatch(re, text) == MatchFrom(re, text, 1, 0, NoCaps)

\* a search that returns the rightmost match
SearchLast(re, text, from) ==
    LET starts == {p \in from..Len(text) : MatchFrom(re, text, 1, p, NoCaps).ok} IN
    IF starts = {} THEN [ok |-> FALSE, start |-> 0, end |-> 0, caps |-> <<>>]
    ELSE LET p == CHOOSE x \in starts : \A y \in starts : x >= y
             r == MatchFrom(re, text, 1, p, NoCaps)
         IN [ok |-> TRUE, start |-> p, end |-> r.end, caps |-> r.caps]

\* re.search: the leftmost position of text where the pattern matches
SearchFrom(re, text, from) ==
    LET starts == {p \in from..Len(text) : MatchFrom(re, text, 1, p, NoCaps).ok} IN
    IF starts = {} THEN [ok |-> FALSE, start |-> 0, end |-> 0, caps |-> <<>>]
    ELSE LET p == CHOOSE x \in starts : \A y \in starts : x <= y
             r == MatchFrom(re, text, 1, p, NoCaps)
         IN [ok |-> TRUE, start |-> p, end |-> r.end, caps |-> r.caps]

ReSearch(re, text) == SearchFrom(re, text, 0)

\* match.group(g)
Group(text, r, g) == Slice(text, r.caps[g][1], r.caps[g][2])

(***************************************************************************)
(* parse_email_body.                                                       *)
(***************************************************************************)
HONORIFICS == << <<"M","o","n","s","i","e","u","r">>, <<"M","a","d","a","m","e">>,
                 <<"H","e","r","r">>, <<"F","r","a","u">>,
                 <<"S","i","g","n","o","r">>, <<"S","i","g","n","o","r","a">>,
                 <<"M","x">> >>

\* GENDER_MAP.get(genre_raw, "Autre")
GENDER_MAP(genre_raw) ==
    CASE genre_raw = <<"m","o","n","s","i","e","u","r">> -> "Homme"
      [] genre_raw = <<"m","a","d","a","m","e">> -> "Femme"
      [] genre_raw = <<"h","e","r","r">> -> "Homme"
      [] genre_raw = <<"f","r","a","u">> -> "Femme"
      [] genre_raw = <<"s","i","g","n","o","r">> -> "Homme"
      [] genre_raw = <<"s","i","g","n","o","r","a">> -> "Femme"
      [] genre_raw = <<"m","x">> -> "Autre"
      [] OTHER -> "Autre"

\* r"Pour r[ée]pondre:\s*(\S+@\S+)"
email_pattern ==
    <<Lit(<<"P","o","u","r"," ","r">>), Chr({"é", "e"}, "1"),
      Lit(<<"p","o","n","d","r","e",":">>), Cls("sp", "*"), Open(1), Cls("nsp", "+"), Chr({"@"}, "1"), Cls("nsp", "+"), Close(1)>>

\* r"\s+vient de vous sugg[ée]rer ceci [àa]\s*.+?:\s*", the tail of the four patterns
connective ==
    <<Cls("sp", "+"),
      Lit(<<"v","i","e","n","t"," ","d","e"," ","v","o","u","s"," ","s","u","g","g">>),
      Chr({"é", "e"}, "1"), Lit(<<"r","e","r"," ","c","e","c","i"," ">>),
      Chr({"à", "a"}, "1"), Cls("sp", "*"), Cls("any", "+?"), Chr({":"}, "1"), Cls("sp", "*")>>

pattern1 ==
    <<Open(1), Alt(HONORIFICS), Close(1), Cls("sp", "+"), Open(2), Cls("nsp", "+"), Close(2),
      Cls("sp", "+"), Open(3), Cls("any", "+?"), Close(3)>> \o connective

pattern2 ==
    <<Open(1), Alt(HONORIFICS), Close(1), Cls("sp", "+"), Open(2), Cls("nsp", "+"), Close(2)>>
    \o connective

pattern3 ==
    <<Open(1), Cls("nsp", "+"), Close(1), Cls("sp", "+"), Open(2), Cls("any", "+?"), Close(2)>>
    \o connective

pattern4 == <<Open(1), Cls("nsp", "+"), Close(1)>> \o connective

\* body_text.replace("\r\n", "\n").replace("\r", "\n"): the "\n" of a "\r\n" pair
\* goes, and every "\r" becomes "\n"
NormalizeNewlines(s) ==
    LET marked == [k \in 1..Len(s) |->
                      IF s[k] = "\n" /\ k > 1 /\ s[k - 1] = "\r" THEN ""
                      ELSE IF s[k] = "\r" THEN "\n" ELSE s[k]]
    IN SelectSeq(marked, LAMBDA c : c # "")

UNRECOGNIZED_MARKER == <<"[","F","O","R","M","A","T"," ","N","O","N"," ","R","E","C","O","N","N","U","]"," ">>
UNRECOGNIZED_KEEP == 500

\* the value None of parse_email_body, and a record with the given fields
None == [found |-> FALSE, genre |-> "", nom |-> <<>>, prenom |-> <<>>,
         email |-> <<>>, commentaire |-> <<>>]
Review(genre, nom, prenom, email, commentaire) ==
    [found |-> TRUE, genre |-> genre, nom |-> nom, prenom |-> prenom,
     email |-> email, commentaire |-> commentaire]

\* text_before_email[match.end():].strip()
commentaire_after(text_before_email, m) ==
    Strip(Slice(text_before_email, m.end, Len(text_before_email)))

\* lines 405-409: the fields of a match of pattern1
result1(text_before_email, email, m) ==
    Review(GENDER_MAP(Lower(Strip(Group(text_before_email, m, 1)))),
           Strip(Group(text_before_email, m, 2)),
           Strip(Group(text_before_email, m, 3)), email,
           commentaire_after(text_before_email, m))

\* lines 417-420: the fields of a match of pattern2
result2(text_before_email, email, m) ==
    Review(GENDER_MAP(Lower(Strip(Group(text_before_email, m, 1)))),
           Strip(Group(text_before_email, m, 2)), <<>>, email,
           commentaire_after(text_before_email, m))

\* lines 428-430: the fields of a match of pattern3
result3(text_before_email, email, m) ==
    Review("", Strip(Group(text_before_email, m, 1)),
           Strip(Group(text_before_email, m, 2)), email,
           commentaire_after(text_before_email, m))

\* lines 438-439: the fields of a match of pattern4
result4(text_before_email, email, m) ==
    Review("", Strip(Group(text_before_email, m, 1)), <<>>, email,
           commentaire_after(text_before_email, m))

\* an unrecognized format that keeps the whole text, and one that drops the marker
unrecognized_whole(text_before_email, email) ==
    Review("", <<>>, <<>>, email, UNRECOGNIZED_MARKER \o text_before_email)
unrecognized_bare(text_before_email, email) ==
    Review("", <<>>, <<>>, email,
           Slice(text_before_email, 0,
                 IF Len(text_before_email) < UNRECOGNIZED_KEEP
                 THEN Len(text_before_email) ELSE UNRECOGNIZED_KEEP))

\* line 443: the marker and the first UNRECOGNIZED_KEEP characters of the text
unrecognized(text_before_email, email) ==
    Review("", <<>>, <<>>, email,
           UNRECOGNIZED_MARKER \o Slice(text_before_email, 0,
               IF Len(text_before_email) < UNRECOGNIZED_KEEP
               THEN Len(text_before_email) ELSE UNRECOGNIZED_KEEP))

\* the patterns tried from the simplest to the most complete
parse_fields_reversed(text_before_email, email, m1, m2, m3, m4) ==
    IF m4.ok THEN result4(text_before_email, email, m4)
    ELSE IF m3.ok THEN result3(text_before_email, email, m3)
    ELSE IF m2.ok THEN result2(text_before_email, email, m2)
    ELSE IF m1.ok THEN result1(text_before_email, email, m1)
    ELSE unrecognized(text_before_email, email)

\* lines 400-444: the four patterns in the order of the code (m1..m4 are their
\* matches on text_before_email), then the unrecognized format
parse_fields(text_before_email, email, m1, m2, m3, m4) ==
    IF m1.ok THEN result1(text_before_email, email, m1)
    ELSE IF m2.ok THEN result2(text_before_email, email, m2)
    ELSE IF m3.ok THEN result3(text_before_email, email, m3)
    ELSE IF m4.ok THEN result4(text_before_email, email, m4)
    ELSE unrecognized(text_before_email, email)

\* lines 397-398 and the matches of the four patterns
parse_before(text_before_email, email) ==
    parse_fields(text_before_email, email,
                 ReMatch(pattern1, text_before_email), ReMatch(pattern2, text_before_email),
                 ReMatch(pattern3, text_before_email), ReMatch(pattern4, text_before_email))

\* a parser that keeps a text in which it found no address
parse_always(body_text, email_match) ==
    IF ~email_match.ok THEN parse_before(Strip(body_text), <<>>)
    ELSE parse_before(Strip(Slice(body_text, 0, email_match.start)),
                      Strip(Group(body_text, email_match, 1)))

\* lines 391-398: no reply-to marker: None
parse_marked(body_text, email_match) ==
    IF ~email_match.ok THEN None
    ELSE parse_before(Strip(Slice(body_text, 0, email_match.start)),
                      Strip(Group(body_text, email_match, 1)))

\* lines 386-389
parse_normalized(body_text) == parse_marked(body_text, ReSearch(email_pattern, body_text))

parse_email_body(raw_text) == parse_normalized(Strip(NormalizeNewlines(raw_text)))

(***************************************************************************)
(* Reading a fetched message. A message is                                 *)
(*   [headers: sequence of [name, value], body: the decoded data of        *)
(*    payload.body ("" when absent), parts: sequence of                    *)
(*    [mimeType, data, parts], date: the Date header already formatted,    *)
(*    decodable: FALSE when reading the payload raises]                    *)
(***************************************************************************)
\* the characters of s at the positions kept, in order
Pick(s, kept) ==
    LET nth(q) == CHOOSE k \in kept : Cardinality({j \in kept : j <= k}) = q
    IN [q \in 1..Cardinality(kept) |-> s[nth(q)]]

\* r'"?([^"<]+)"?\s*<'
from_pattern ==
    <<Chr({"\""}, "?"), Open(1), NChr({"\"", "<"}, "+"), Close(1), Chr({"\""}, "?"),
      Cls("sp", "*"), Chr({"<"}, "1")>>

get_sender_name(message) ==
    LET froms == {h \in 1..Len(message.headers) :
                     Lower(message.headers[h].name) = <<"f","r","o","m">>}
    IN IF froms = {} THEN <<>>
       ELSE LET h == CHOOSE x \in froms : \A y \in froms : x <= y
                from_value == message.headers[h].value
                match == ReMatch(from_pattern, from_value)
            IN IF match.ok THEN Strip(Group(from_value, match, 1)) ELSE from_value

get_email_date(message) == message.date

\* re.sub(r"<[^>]+>", " ", html): a tag runs from a "<" to the first ">" after it,
\* at least one character between them
StripTags(html) ==
    LET closing(p) == {q \in (p + 1)..Len(html) : html[q] = ">"}
        close(p) == CHOOSE q \in closing(p) : \A r \in closing(p) : q <= r
        opens(k) == {p \in 1..k : html[p] = "<" /\ closing(p) # {}
                                  /\ close(p) >= p + 2 /\ k <= close(p)}
        inTag(k) == opens(k) # {}
        ends(k) == inTag(k) /\ html[k] = ">"
        kept == {k \in 1..Len(html) : ~inTag(k) \/ ends(k)}
        marked == [k \in 1..Len(html) |-> IF inTag(k) THEN " " ELSE html[k]]
    IN Pick(marked, kept)

\* re.sub(r"\s+", " ", clean)
CollapseSpaces(s) ==
    LET kept == {k \in 1..Len(s) : ~(IsSpace(s[k]) /\ k > 1 /\ IsSpace(s[k - 1]))}
        marked == [k \in 1..Len(s) |-> IF IsSpace(s[k]) THEN " " ELSE s[k]]
    IN Pick(marked, kept)

IsPlain(part) == part.mimeType = "text/plain" /\ Len(part.data) > 0
IsHtml(part) == part.mimeType = "text/html" /\ Len(part.data) > 0

get_email_body(message) ==
    IF Len(message.body) > 0 THEN message.body
    ELSE
    LET parts == message.parts
        plainSubs(p) == {s \in 1..Len(parts[p].parts) : IsPlain(parts[p].parts[s])}
        plainAt(p) ==
            IF IsPlain(parts[p]) THEN parts[p].data
            ELSE IF plainSubs(p) # {}
            THEN parts[p].parts[CHOOSE s \in plainSubs(p) : \A r \in plainSubs(p) : s <= r].data
            ELSE <<>>
        plains == {p \in 1..Len(parts) : Len(plainAt(p)) > 0}
        htmls == {p \in 1..Len(parts) : IsHtml(parts[p])}
    IN
    IF plains # {} THEN plainAt(CHOOSE p \in plains : \A r \in plains : p <= r)
    ELSE IF htmls # {}
    THEN Strip(CollapseSpaces(StripTags(
             parts[CHOOSE p \in htmls : \A r \in htmls : p <= r].data)))
    ELSE <<>>

(***************************************************************************)
(* The mails that may arrive in the inbox: one per kind of outcome.        *)
(***************************************************************************)
W_From == <<"F","r","o","m">>
W_Sender == <<"B","K"," ","<","n","@","r",".","i","o",">">>
W_Intro == <<" ","v","i","e","n","t"," ","d","e"," ","v","o","u","s"," ","s","u","g","g","e","r","e","r"," ","c","e","c","i"," ","a"," ","G",":"," ">>
W_Reply == <<" ","P","o","u","r"," ","r","e","p","o","n","d","r","e",":"," ">>
W_Ann == <<"a","n","n","@","x",".","i","o">>
W_Bob == <<"b","o","b","@","x",".","i","o">>
W_BobUpper == <<"B","o","b","@","X",".","i","o">>
W_Short == <<"a","@","b",".","c">>
W_Hello == <<"h","e","l","l","o">>
W_HtmlHello == <<"<","p",">","h","e","l","l","o","<","/","p",">">>

FromHeader == <<[name |-> W_From, value |-> W_Sender]>>
Flat(headers, text) ==
    [headers |-> headers, body |-> text, parts |-> <<>>, date |-> "06/02/2025",
     decodable |-> TRUE]
Multi(headers, parts) ==
    [headers |-> headers, body |-> <<>>, parts |-> parts, date |-> "06/02/2025",
     decodable |-> TRUE]
Part(mimeType, data, parts) == [mimeType |-> mimeType, data |-> data, parts |-> parts]

MAILS == <<
    \* 1: honorific, last name, first name: acceptable
    Flat(FromHeader, <<"M","x"," ","L","i"," ","B","o">> \o W_Intro \o <<"o","k">>
                     \o W_Reply \o W_Ann),
    \* 2: no From header, names without honorific, the address of 6 in another case
    Multi(<<>>, <<Part("text/plain", <<"L","i"," ","B","o">> \o W_Intro \o <<"o","k">>
                                     \o W_Reply \o W_BobUpper, <<>>)>>),
    \* 3: honorific and last name only, the address of 1
    Flat(FromHeader, <<"M","x"," ","L","i">> \o W_Intro \o <<"o","k">> \o W_Reply \o W_Ann),
    \* 4: HTML only, no reply-to marker
    Multi(FromHeader, <<Part("text/html", W_HtmlHello, <<>>)>>),
    \* 5: unrecognized preamble, address with a one-character local part
    Flat(FromHeader, W_Hello \o W_Reply \o W_Short),
    \* 6: acceptable names and address, a comment that is a spam word
    Multi(FromHeader, <<Part("multipart/alternative", <<>>,
              <<Part("text/plain", <<"M","x"," ","L","i"," ","B","o">> \o W_Intro
                                   \o <<"t","e","s","t">> \o W_Reply \o W_Bob, <<>>)>>)>>),
    \* 7: a payload that cannot be decoded
    [headers |-> FromHeader, body |-> W_Hello, parts |-> <<>>, date |-> "06/02/2025",
     decodable |-> FALSE],
    \* 8: unrecognized preamble, the address of 6
    Flat(FromHeader, W_Hello \o W_Reply \o W_Bob)
>>

\* what lines 608-611 of main extract from each mail
EXTRACTED == <<
    [nom_commerce |-> get_sender_name(MAILS[1]), date_reception |-> get_email_date(MAILS[1]),
     parsed |-> parse_email_body(get_email_body(MAILS[1]))],
    [nom_commerce |-> get_sender_name(MAILS[2]), date_reception |-> get_email_date(MAILS[2]),
     parsed |-> parse_email_body(get_email_body(MAILS[2]))],
    [nom_commerce |-> get_sender_name(MAILS[3]), date_reception |-> get_email_date(MAILS[3]),
     parsed |-> parse_email_body(get_email_body(MAILS[3]))],
    [nom_commerce |-> get_sender_name(MAILS[4]), date_reception |-> get_email_date(MAILS[4]),
     parsed |-> parse_email_body(get_email_body(MAILS[4]))],
    [nom_commerce |-> get_sender_name(MAILS[5]), date_reception |-> get_email_date(MAILS[5]),
     parsed |-> parse_email_body(get_email_body(MAILS[5]))],
    [nom_commerce |-> get_sender_name(MAILS[6]), date_reception |-> get_email_date(MAILS[6]),
     parsed |-> parse_email_body(get_email_body(MAILS[6]))],
    [nom_commerce |-> get_sender_name(MAILS[7]), date_reception |-> get_email_date(MAILS[7]),
     parsed |-> parse_email_body(get_email_body(MAILS[7]))],
    [nom_commerce |-> get_sender_name(MAILS[8]), date_reception |-> get_email_date(MAILS[8]),
     parsed |-> parse_email_body(get_email_body(MAILS[8]))]
>>

(***************************************************************************)
(* Bounds of the model. The sizes the program fixes (page of the listing,  *)
(* batch of the write, identifiers kept by the remote checkpoint, margin   *)
(* and size of the grid) are scaled down so that a mailbox of MaxMsgs      *)
(* mails reaches them.                                                     *)
(***************************************************************************)
MaxMsgs == 2
MaxRuns == 2
MaxRetriesCfg == 3
MaxDelayCfg == 2
\* maxResults=500 of the listing
PAGE_SIZE == 1
\* batch_size = 500
BATCH_SIZE == 1
\* [-10000:] of save_state
KEEP_IDS == 1
\* the 1000 rows of margin of ensure_sheet_has_enough_rows
GROW_MARGIN == 1
\* rowCount of a new sheet
INITIAL_ROWS == 2

MsgIds == 1..MaxMsgs
DEFAULT_CATEGORY == "Fast-food"

\* the header row of the sheet; the program reads none of its cells
HEADER == << <<"A">>, "B", "C", <<"D">>, <<"E">>, "", <<"G">>, "H", 0, "J", <<"K">> >>

FilterKeys == {"no_email", "invalid_email", "duplicate", "invalid_name", "invalid_comment"}
ZeroStats == [k \in FilterKeys |-> 0]

\* the responses to the attempts of a call of the run: a normal return, a permanent
\* and a transient failure (429, 5xx and other exceptions take the branch of 503);
\* no attempt follows a return or a permanent failure, so the responses after one
\* repeat it
RunStatuses == {200, 404, 503}
RunResp ==
    {r \in [1..API_MAX_RETRIES -> RunStatuses] :
        \A k \in 1..(API_MAX_RETRIES - 1) : r[k] # 503 => r[k + 1] = r[k]}

VARIABLES
    \* the environment
    remote,           \* GOOGLE_TOKEN is set: the checkpoint lives in the sheet _processed_ids
    mailbox,          \* the identifiers of the INBOX, in the order of the listing
    content,          \* identifier -> index in MAILS
    sheet,            \* the rows of the destination sheet, header first
    rowCount,         \* gridProperties.rowCount of the destination sheet
    store_exists,     \* last_processed.json, or the sheet _processed_ids, exists
    stored_ids,       \* the identifiers it holds
    stored_last_run,  \* "last_run" of last_processed.json (0: none)
    outbox,           \* the notifications sent
    clock,            \* the number of runs started
    \* the run of main
    pc, processed_ids, all_messages, page, new_messages, seen_emails, rows_to_add,
    errors, stats, i, next_row, start,
    \* observation of the run
    outcomes,         \* the outcome of each message of new_messages handled so far
    last_call,        \* the last remote call made and how it ended
    order,            \* the identifiers checkpointed, oldest first
    hist,             \* how the previous run ended (load_ok, before and save_ok: how
                      \* the current one started and saved)
    \* one application of api_call_with_retry
    rt,
    \* one application of a function on its own (parse_email_body, a validator,
    \* get_email_body), or the runs of update_subdomains.py
    pure

envVars == <<remote, mailbox, content, sheet, rowCount, store_exists, stored_ids,
             stored_last_run, outbox, clock>>
runVars == <<pc, processed_ids, all_messages, page, new_messages, seen_emails, rows_to_add,
             errors, stats, i, next_row, start>>
obsVars == <<outcomes, last_call, order, hist>>
vars == <<envVars, runVars, obsVars, rt, pure>>

Range(s) == {s[k] : k \in 1..Len(s)}
MinOf(a, b) == IF a <= b THEN a ELSE b

NoCall == [site |-> "none", result |-> "ok"]
\* no run has ended yet
NoRun == [ended |-> "none", saved |-> FALSE, save_ok |-> FALSE, full |-> FALSE,
          err |-> {}, parsed |-> {}, rows |-> 0, before |-> {}, repeat |-> FALSE,
          prev_err |-> {}, unchanged |-> FALSE, load_ok |-> FALSE, recover |-> FALSE,
          clean |-> TRUE]
NoRetry == [max_retries |-> 0, initial_delay |-> 0, resp |-> <<>>, done |-> FALSE,
            result |-> [raised |-> FALSE, error |-> -1, calls |-> 0, sleeps |-> <<>>]]

\* no function has been applied
NoPure == [fn |-> "none", arg |-> <<>>, arg2 |-> <<>>, done |-> FALSE,
           parsed |-> None, valid |-> FALSE, text |-> <<>>]

\* how a call through api_call_with_retry ended
CallResult(site, call) ==
    [site |-> site,
     result |-> IF ~call.raised THEN "ok"
                ELSE IF IsPermanent(call.error) THEN "permanent" ELSE "transient"]

Init ==
    /\ remote \in BOOLEAN
    /\ mailbox = <<>>
    /\ content = [m \in MsgIds |-> 0]
    /\ sheet = <<HEADER>>
    /\ rowCount = INITIAL_ROWS
    /\ store_exists = FALSE
    /\ stored_ids = {}
    /\ stored_last_run = 0
    /\ outbox = <<>>
    /\ clock = 0
    /\ pc = "idle"
    /\ processed_ids = {}
    /\ all_messages = <<>>
    /\ page = 0
    /\ new_messages = <<>>
    /\ seen_emails = {}
    /\ rows_to_add = <<>>
    /\ errors = <<>>
    /\ stats = ZeroStats
    /\ i = 0
    /\ next_row = 0
    /\ start = 0
    /\ outcomes = <<>>
    /\ last_call = NoCall
    /\ order = <<>>
    /\ hist = NoRun
    /\ rt = NoRetry
    /\ pure = NoPure

\* the process of a run ends: its variables are gone
EndRun(how) ==
    /\ pc' = "idle"
    /\ processed_ids' = {}
    /\ all_messages' = <<>>
    /\ page' = 0
    /\ new_messages' = <<>>
    /\ seen_emails' = {}
    /\ rows_to_add' = <<>>
    /\ errors' = <<>>
    /\ stats' = ZeroStats
    /\ i' = 0
    /\ next_row' = 0
    /\ start' = 0
    /\ outcomes' = <<>>
    /\ hist' = [ended |-> how,
                \* the store holds the checkpoint of the run
                saved |-> how = "completed" /\ stored_ids = processed_ids,
                \* save_state was called and took no except clause
                save_ok |-> how = "completed" /\ hist.save_ok,
                \* the retain bound of the store dropped nothing
                full |-> ~remote \/ Cardinality(processed_ids) <= KEEP_IDS,
                \* the messages that ended in an error, and those that were parsed
                err |-> {errors[k].id : k \in 1..Len(errors)},
                parsed |-> {new_messages[k] : k \in {j \in 1..Len(outcomes) :
                                                        outcomes[j] # "error"}},
                \* the rows accepted
                rows |-> Len(rows_to_add),
                \* the store when the run started
                before |-> hist.before,
                \* the run repeated a completed run: same mailbox, its checkpoint
                \* persisted and loaded; and the errors of that run
                repeat |-> /\ hist.ended = "completed"
                           /\ hist.saved
                           /\ hist.unchanged
                           /\ hist.load_ok,
                prev_err |-> hist.err,
                \* no mail has arrived since the run
                unchanged |-> TRUE,
                load_ok |-> FALSE,
                \* the run followed a run that crashed, on the same mailbox
                recover |-> hist.ended = "crashed" /\ hist.unchanged,
                \* every run so far ran to its end
                clean |-> hist.clean /\ how \in {"completed", "returned"}]

\* a mail arrives between two runs; the listing gives the newest first
Deliver(c) ==
    /\ pc = "idle"
    /\ Len(mailbox) < MaxMsgs
    /\ LET m == Len(mailbox) + 1 IN
       /\ mailbox' = <<m>> \o mailbox
       /\ content' = [content EXCEPT ![m] = c]
    /\ hist' = [hist EXCEPT !.unchanged = FALSE]
    /\ UNCHANGED <<remote, sheet, rowCount, store_exists, stored_ids, stored_last_run,
                   outbox, clock, runVars, outcomes, last_call, order, rt, pure>>

(***************************************************************************)
(* The checkpoint store. A call that is not wrapped in api_call_with_retry *)
(* is made once: ok tells whether it returned.                             *)
(***************************************************************************)
\* load_state: the identifiers it returns
load_state(ok) ==
    IF ~remote
    THEN IF store_exists THEN stored_ids ELSE {}
    ELSE IF ok /\ store_exists THEN stored_ids ELSE {}

\* list(processed_ids): a set is listed in an order the program does not choose
Listings(ids) ==
    {p \in [1..Cardinality(ids) -> ids] : \A a, b \in 1..Cardinality(ids) : a # b => p[a] # p[b]}

\* ids[-KEEP_IDS:]
LastKept(ids) ==
    IF Len(ids) <= KEEP_IDS THEN ids ELSE SubSeq(ids, Len(ids) - KEEP_IDS + 1, Len(ids))

\* the calls of save_state in the sheet, made in one try block: read the
\* spreadsheet, add the sheet, clear the column, write the column
SaveCalls == 1..4

\* save_state in the sheet: raising is the call that raises (0: none), the result
\* is the store afterwards and whether the except clause was taken
save_state_remote(listing, raising) ==
    LET ids == LastKept(listing)
        unchanged == [exists |-> store_exists, ids |-> stored_ids, raised |-> TRUE]
    IN
    IF raising = 1 THEN unchanged
    ELSE IF ~store_exists /\ raising = 2 THEN unchanged
    ELSE IF Len(ids) = 0 THEN [exists |-> TRUE, ids |-> stored_ids, raised |-> FALSE]
    ELSE IF raising = 3 THEN [exists |-> TRUE, ids |-> stored_ids, raised |-> TRUE]
    ELSE IF raising = 4 THEN [exists |-> TRUE, ids |-> {}, raised |-> TRUE]
    ELSE [exists |-> TRUE, ids |-> Range(ids), raised |-> FALSE]

(***************************************************************************)
(* main, lines 539-541: a run starts and loads the checkpoint.             *)
(***************************************************************************)
StartRun ==
    /\ pc = "idle"
    /\ clock < MaxRuns
    /\ clock' = clock + 1
    /\ \E ok \in BOOLEAN :
        /\ processed_ids' = load_state(ok)
        /\ hist' = [hist EXCEPT !.load_ok = (load_state(ok) = stored_ids),
                                !.before = stored_ids,
                                !.save_ok = FALSE]
        /\ last_call' = [site |-> "load_state",
                         result |-> IF remote /\ ~ok THEN "transient" ELSE "ok"]
    /\ pc' = "list"
    /\ UNCHANGED <<remote, mailbox, content, sheet, rowCount, store_exists, stored_ids,
                   stored_last_run, outbox, all_messages, page, new_messages, seen_emails,
                   rows_to_add, errors, stats, i, next_row, start, outcomes, order, rt, pure>>

(***************************************************************************)
(* main, lines 545-566: one page of the listing.                           *)
(***************************************************************************)
ListPage ==
    /\ pc = "list"
    /\ \E resp \in RunResp :
        LET call == api_call_with_retry(API_MAX_RETRIES, API_INITIAL_DELAY, resp)
            last == MinOf(Len(mailbox), (page + 1) * PAGE_SIZE)
            messages == Slice(mailbox, page * PAGE_SIZE, last)
        IN
        /\ last_call' = CallResult("list", call)
        /\ IF call.raised
           THEN /\ EndRun("aborted")
                /\ UNCHANGED <<envVars, order, rt, pure>>
           ELSE /\ all_messages' = all_messages \o messages
                /\ page' = page + 1
                /\ pc' = IF last < Len(mailbox) THEN "list" ELSE "filter"
                /\ UNCHANGED <<envVars, processed_ids, new_messages, seen_emails,
                               rows_to_add, errors, stats, i, next_row, start, outcomes,
                               order, hist, rt, pure>>

(***************************************************************************)
(* main, lines 570-576: the messages not yet checkpointed; none: return.   *)
(***************************************************************************)
\* a filter that keeps every listed message
AllListed(listed, ids) == listed

\* line 571: the listed messages not yet checkpointed
NewMessages(listed, ids) == SelectSeq(listed, LAMBDA m : m \notin ids)

FilterNew ==
    /\ pc = "filter"
    /\ LET news == NewMessages(all_messages, processed_ids) IN
       IF news = <<>>
       THEN /\ EndRun("returned")
            /\ UNCHANGED <<envVars, last_call, order, rt, pure>>
       ELSE /\ new_messages' = news
            /\ pc' = "load_existing"
            /\ UNCHANGED <<envVars, processed_ids, all_messages, page, seen_emails,
                           rows_to_add, errors, stats, i, next_row, start, obsVars, rt, pure>>

(***************************************************************************)
(* load_existing_emails: column G below the header, lowercased and         *)
(* trimmed; any failure of the read gives the empty set.                   *)
(***************************************************************************)
load_existing_emails(call) ==
    IF call.raised THEN {}
    ELSE {Strip(Lower(sheet[r][7])) : r \in {x \in 2..Len(sheet) : Len(sheet[x][7]) > 0}}

\* main, lines 578-595
LoadExisting ==
    /\ pc = "load_existing"
    /\ \E resp \in RunResp :
        LET call == api_call_with_retry(API_MAX_RETRIES, API_INITIAL_DELAY, resp) IN
        /\ last_call' = CallResult("existing", call)
        /\ seen_emails' = load_existing_emails(call)
    /\ rows_to_add' = <<>>
    /\ errors' = <<>>
    /\ stats' = ZeroStats
    /\ i' = 1
    /\ pc' = "loop"
    /\ UNCHANGED <<envVars, processed_ids, all_messages, page, new_messages, next_row,
                   start, outcomes, order, hist, rt, pure>>

(***************************************************************************)
(* main, lines 597-665: one message of the loop.                           *)
(***************************************************************************)
\* parsed["email"].lower().strip()
email_lower(parsed) == Strip(Lower(parsed.email))

\* the checks with the name before the duplicate
ClassifyNameFirst(parsed, seen) ==
    IF ~parsed.found THEN "no_email"
    ELSE IF ~is_valid_email(parsed.email) THEN "invalid_email"
    ELSE IF ~is_valid_name(parsed.nom, parsed.prenom) THEN "invalid_name"
    ELSE IF Strip(Lower(parsed.email)) \in seen THEN "duplicate"
    ELSE IF ~is_valid_comment(parsed.commentaire) THEN "invalid_comment"
    ELSE "accepted"

\* lines 616-641: the checks in the order of the code, and the outcome
Classify(parsed, seen) ==
    IF ~parsed.found THEN "no_email"
    ELSE IF ~is_valid_email(parsed.email) THEN "invalid_email"
    ELSE IF email_lower(parsed) \in seen THEN "duplicate"
    ELSE IF ~is_valid_name(parsed.nom, parsed.prenom) THEN "invalid_name"
    ELSE IF ~is_valid_comment(parsed.commentaire) THEN "invalid_comment"
    ELSE "accepted"

\* line 631: the address joins seen_emails once it has passed the duplicate check
SeenAfter(parsed, seen) ==
    IF Classify(parsed, seen) \in {"no_email", "invalid_email", "duplicate"}
    THEN seen
    ELSE seen \cup {email_lower(parsed)}

\* a rejection that forgets its counter
CountNothing(st, outcome) == st

\* lines 618-640: the counter of a rejection
Count(st, outcome) ==
    IF outcome \in FilterKeys THEN [st EXCEPT ![outcome] = @ + 1] ELSE st

\* lines 644-656
MakeRow(ex) ==
    <<ex.nom_commerce, DEFAULT_CATEGORY, ex.parsed.genre, ex.parsed.nom, ex.parsed.prenom,
      "", ex.parsed.email, "Pending", 1, ex.date_reception, ex.parsed.commentaire>>

\* a checkpoint taken before the fetch, and one taken only for an accepted row
CheckpointAlways(ids, id, outcome) == ids \cup {id}
CheckpointAccepted(ids, id, outcome) == IF outcome = "accepted" THEN ids \cup {id} ELSE ids

\* line 614, reached when neither the fetch nor the reading raised
Checkpoint(ids, id, outcome) == IF outcome = "error" THEN ids ELSE ids \cup {id}

\* the identifier id is checkpointed now
Checkpointed(seq, id) == SelectSeq(seq, LAMBDA x : x # id) \o <<id>>

\* a loop that flushes as soon as a row is accepted
FlushAtOnce(k, n, rows, outcome) ==
    IF rows # <<>> \/ outcome = "accepted" THEN "flush_read"
    ELSE IF k < n THEN "loop" ELSE "save"

\* lines 597 and 674: after the k-th of n messages the loop goes on; after the
\* last, the flush when a row was accepted (rows: those of the messages before)
AfterMessage(k, n, rows, outcome) ==
    IF k < n THEN "loop"
    ELSE IF rows # <<>> \/ outcome = "accepted" THEN "flush_read"
    ELSE "save"

\* lines 599-665 for the message id: call is the fetch of line 601, decodable tells
\* whether lines 608-611 return, ex is what they extract, outcome what lines
\* 616-657 or the handler of line 662 decide
Handle(id, call, decodable, ex, outcome) ==
    /\ last_call' = CallResult("fetch", call)
    /\ errors' = IF outcome = "error"
                 THEN Append(errors, [id |-> id,
                                      kind |-> IF call.raised THEN "fetch" ELSE "decode"])
                 ELSE errors
    /\ processed_ids' = Checkpoint(processed_ids, id, outcome)
    /\ order' = IF id \in Checkpoint(processed_ids, id, outcome)
                THEN Checkpointed(order, id) ELSE order
    /\ stats' = Count(stats, outcome)
    /\ seen_emails' = IF outcome = "error" THEN seen_emails
                      ELSE SeenAfter(ex.parsed, seen_emails)
    /\ rows_to_add' = IF outcome = "accepted" THEN Append(rows_to_add, MakeRow(ex))
                      ELSE rows_to_add
    /\ outcomes' = Append(outcomes, outcome)
    /\ i' = i + 1
    /\ pc' = AfterMessage(i, Len(new_messages), rows_to_add, outcome)

\* an outcome that ignores the exception of the fetch
OutcomeOfBody(call, decodable, parsed, seen) ==
    IF ~decodable THEN "error" ELSE Classify(parsed, seen)

\* the outcome of a message: an exception of the fetch or of the reading, or the checks
Outcome(call, decodable, parsed, seen) ==
    IF call.raised \/ ~decodable THEN "error" ELSE Classify(parsed, seen)

Process(id, call, decodable, ex) ==
    Handle(id, call, decodable, ex, Outcome(call, decodable, ex.parsed, seen_emails))

ProcessMessage ==
    /\ pc = "loop"
    /\ i <= Len(new_messages)
    /\ \E resp \in RunResp :
        Process(new_messages[i],
                api_call_with_retry(API_MAX_RETRIES, API_INITIAL_DELAY, resp),
                MAILS[content[new_messages[i]]].decodable,
                EXTRACTED[content[new_messages[i]]])
    /\ UNCHANGED <<envVars, all_messages, page, new_messages, next_row, start, hist, rt, pure>>

(***************************************************************************)
(* main, lines 673-706: the flush of the accepted rows.                    *)
(***************************************************************************)
\* len(result.get("values", [])) for column A: the rows down to the last
\* one whose cell A is not empty
existing_rows ==
    LET filled == {r \in 1..Len(sheet) : Len(sheet[r][1]) > 0} IN
    IF filled = {} THEN 0 ELSE CHOOSE r \in filled : \A x \in filled : r >= x

\* lines 678-685
FlushRead ==
    /\ pc = "flush_read"
    /\ \E resp \in RunResp :
        LET call == api_call_with_retry(API_MAX_RETRIES, API_INITIAL_DELAY, resp) IN
        /\ last_call' = CallResult("flush_read", call)
        /\ IF call.raised
           THEN /\ EndRun("aborted")
                /\ UNCHANGED <<envVars, order, rt, pure>>
           ELSE /\ next_row' = existing_rows + 1
                /\ pc' = "ensure_get"
                /\ UNCHANGED <<envVars, processed_ids, all_messages, page, new_messages,
                               seen_emails, rows_to_add, errors, stats, i, start, outcomes,
                               order, hist, rt, pure>>

\* line 688
total_rows_needed == next_row + Len(rows_to_add)

\* ensure_sheet_has_enough_rows, lines 481-497: the metadata of the sheet
EnsureGet ==
    /\ pc = "ensure_get"
    /\ \E resp \in RunResp :
        LET call == api_call_with_retry(API_MAX_RETRIES, API_INITIAL_DELAY, resp) IN
        /\ last_call' = CallResult("ensure_get", call)
        /\ IF call.raised
           THEN /\ EndRun("aborted")
                /\ UNCHANGED <<envVars, order, rt, pure>>
           ELSE /\ pc' = IF total_rows_needed > rowCount THEN "ensure_grow" ELSE "write"
                /\ start' = 0
                /\ UNCHANGED <<envVars, processed_ids, all_messages, page, new_messages,
                               seen_emails, rows_to_add, errors, stats, i, next_row,
                               outcomes, order, hist, rt, pure>>

\* ensure_sheet_has_enough_rows, lines 500-519: the grid grows
EnsureGrow ==
    /\ pc = "ensure_grow"
    /\ \E resp \in RunResp :
        LET call == api_call_with_retry(API_MAX_RETRIES, API_INITIAL_DELAY, resp) IN
        /\ last_call' = CallResult("ensure_grow", call)
        /\ IF call.raised
           THEN /\ EndRun("aborted")
                /\ UNCHANGED <<envVars, order, rt, pure>>
           ELSE /\ rowCount' = rowCount + (total_rows_needed - rowCount + GROW_MARGIN)
                /\ pc' = "write"
                /\ UNCHANGED <<remote, mailbox, content, sheet, store_exists, stored_ids,
                               stored_last_run, outbox, clock, processed_ids, all_messages,
                               page, new_messages, seen_emails, rows_to_add, errors, stats,
                               i, next_row, start, outcomes, order, hist, rt, pure>>

\* an update that writes nothing
WriteNothing(rows, first, batch) == rows

\* values().update at row first (1-based): the rows of batch replace or extend the sheet
WriteRows(rows, first, batch) ==
    [r \in 1..(IF first + Len(batch) - 1 > Len(rows) THEN first + Len(batch) - 1
               ELSE Len(rows)) |->
        IF r >= first /\ r < first + Len(batch) THEN batch[r - first + 1] ELSE rows[r]]

\* lines 693-704: one batch
WriteBatch ==
    /\ pc = "write"
    /\ \E resp \in RunResp :
        LET call == api_call_with_retry(API_MAX_RETRIES, API_INITIAL_DELAY, resp)
            batch == Slice(rows_to_add, start, MinOf(Len(rows_to_add), start + BATCH_SIZE))
        IN
        /\ last_call' = CallResult("write", call)
        /\ IF call.raised
           THEN /\ EndRun("aborted")
                /\ UNCHANGED <<envVars, order, rt, pure>>
           ELSE /\ sheet' = WriteRows(sheet, next_row + start, batch)
                /\ start' = start + BATCH_SIZE
                /\ pc' = IF start + BATCH_SIZE < Len(rows_to_add) THEN "write" ELSE "save"
                /\ UNCHANGED <<remote, mailbox, content, rowCount, store_exists, stored_ids,
                               stored_last_run, outbox, clock, processed_ids, all_messages,
                               page, new_messages, seen_emails, rows_to_add, errors, stats,
                               i, next_row, outcomes, order, hist, rt, pure>>

(***************************************************************************)
(* main, lines 708-711: the checkpoint is saved.                           *)
(***************************************************************************)
SaveState ==
    /\ pc = "save"
    /\ IF ~remote
       THEN /\ store_exists' = TRUE
            /\ stored_ids' = processed_ids
            /\ stored_last_run' = clock
            /\ last_call' = [site |-> "save_state", result |-> "ok"]
            /\ hist' = [hist EXCEPT !.save_ok = TRUE]
       ELSE \E listing \in Listings(processed_ids), raising \in {0} \cup SaveCalls :
            LET after == save_state_remote(listing, raising) IN
            /\ store_exists' = after.exists
            /\ stored_ids' = after.ids
            /\ stored_last_run' = stored_last_run
            /\ last_call' = [site |-> "save_state",
                             result |-> IF after.raised THEN "transient" ELSE "ok"]
            /\ hist' = [hist EXCEPT !.save_ok = ~after.raised]
    /\ pc' = "notify"
    /\ UNCHANGED <<remote, mailbox, content, sheet, rowCount, outbox, clock, processed_ids,
                   all_messages, page, new_messages, seen_emails, rows_to_add, errors, stats,
                   i, next_row, start, outcomes, order, rt, pure>>

(***************************************************************************)
(* main, line 715, and send_notification: the summary is sent, a failure   *)
(* of the send is only printed; the run is over.                           *)
(***************************************************************************)
Notify ==
    /\ pc = "notify"
    /\ \E ok \in BOOLEAN :
        /\ outbox' = IF ok
                     THEN Append(outbox, [count |-> Len(rows_to_add), stats |-> stats,
                                          errors |-> Len(errors)])
                     ELSE outbox
        /\ last_call' = [site |-> "notify", result |-> IF ok THEN "ok" ELSE "transient"]
    /\ EndRun("completed")
    /\ UNCHANGED <<remote, mailbox, content, sheet, rowCount, store_exists, stored_ids,
                   stored_last_run, clock, order, rt, pure>>

Next ==
    \/ \E c \in 1..Len(MAILS) : Deliver(c)
    \/ StartRun
    \/ ListPage
    \/ FilterNew
    \/ LoadExisting
    \/ ProcessMessage
    \/ FlushRead
    \/ EnsureGet
    \/ EnsureGrow
    \/ WriteBatch
    \/ SaveState
    \/ Notify

Spec == Init /\ [][Next]_vars

(***************************************************************************)
(* The process of a run is killed at any point: its variables are gone,    *)
(* what it wrote to the sheet and to the store stays.                      *)
(***************************************************************************)
Crash ==
    /\ pc # "idle"
    /\ EndRun("crashed")
    /\ UNCHANGED <<envVars, last_call, order, rt, pure>>

NextCrash == Next \/ Crash

SpecCrash == Init /\ [][NextCrash]_vars

(***************************************************************************)
(* api_call_with_retry alone: the configuration (api.max_retries,          *)
(* api.initial_delay) and the outcomes of the successive calls are drawn,  *)
(* and the wrapper is applied to them.                                     *)
(***************************************************************************)
InitRetry ==
    /\ \E n \in 0..MaxRetriesCfg, d \in 1..MaxDelayCfg :
        \E r \in RespSeqs(n) :
            rt = [max_retries |-> n, initial_delay |-> d, resp |-> r, done |-> FALSE,
                  result |-> NoRetry.result]
    /\ remote = FALSE
    /\ mailbox = <<>>
    /\ content = [m \in MsgIds |-> 0]
    /\ sheet = <<HEADER>>
    /\ rowCount = INITIAL_ROWS
    /\ store_exists = FALSE
    /\ stored_ids = {}
    /\ stored_last_run = 0
    /\ outbox = <<>>
    /\ clock = 0
    /\ pc = "idle"
    /\ processed_ids = {}
    /\ all_messages = <<>>
    /\ page = 0
    /\ new_messages = <<>>
    /\ seen_emails = {}
    /\ rows_to_add = <<>>
    /\ errors = <<>>
    /\ stats = ZeroStats
    /\ i = 0
    /\ next_row = 0
    /\ start = 0
    /\ outcomes = <<>>
    /\ last_call = NoCall
    /\ order = <<>>
    /\ hist = NoRun
    /\ pure = NoPure

CallWithRetry ==
    /\ ~rt.done
    /\ rt' = [rt EXCEPT !.done = TRUE,
                        !.result = api_call_with_retry(rt.max_retries, rt.initial_delay,
                                                       rt.resp)]
    /\ UNCHANGED <<envVars, runVars, obsVars, pure>>

NextRetry == CallWithRetry

SpecRetry == InitRetry /\ [][NextRetry]_vars

(***************************************************************************)
(* parse_email_body alone: a body text is drawn and the parser is applied  *)
(* to it. The texts are a preamble, a reply-to marker and a token, each    *)
(* drawn from a few, then some separators and suffixes, and two longer     *)
(* texts.                                                                  *)
(***************************************************************************)
W_Marker == <<"P","o","u","r"," ","r","é","p","o","n","d","r","e",":">>
W_MarkerPlain == <<"P","o","u","r"," ","r","e","p","o","n","d","r","e",":">>
W_MarkerUpper == <<"P","O","U","R"," ","R","É","P","O","N","D","R","E",":">>
W_MarkerNoColon == <<"P","o","u","r"," ","r","e","p","o","n","d","r","e">>
W_Bye == <<" ","b","y","e">>

\* the well-formed text quoted by the specification of the parser
W_Example ==
    <<"M","o","n","s","i","e","u","r"," ","D","u","p","o","n","t"," ","J","e","a","n"," ",
      "v","i","e","n","t"," ","d","e"," ","v","o","u","s"," ","s","u","g","g","é","r","e","r"," ",
      "c","e","c","i"," ","à"," ","G","e","n","e","v","a",":"," ",
      "G","r","e","a","t"," ","s","e","r","v","i","c","e","!"," ">>
    \o W_Marker \o
    <<" ","j","e","a","n",".","d","u","p","o","n","t","@","e","x","a","m","p","l","e",".","c","o","m">>

\* a preamble of more than UNRECOGNIZED_KEEP characters that no pattern matches
W_Long == [k \in 1..(UNRECOGNIZED_KEEP + 2) |-> "x"]
          \o <<" ">> \o W_Marker \o <<" ">> \o W_Ann

ParsePreambles ==
    { <<>>,
      <<" ","\t">>,
      <<"M","x"," ","L","i"," ","B","o">> \o W_Intro \o <<"o","k">>,
      <<"m","a","d","a","m","e"," ","L","i">> \o W_Intro \o <<"o","k">>,
      <<"L","i"," ","B","o">> \o W_Intro \o <<"o","k">>,
      <<"L","i">> \o W_Intro \o <<"o","k">>,
      <<"H","e","r","r"," ","L","i"," ","B","o">> \o W_Intro,
      W_Hello,
      <<"h","i"," ">> \o W_MarkerPlain \o <<" ","x">>,
      <<"h","i"," ">> \o W_MarkerPlain \o <<" ","b","@","c",".","d">> }

ParseMarkers == {W_Marker, W_MarkerPlain, W_MarkerUpper, W_MarkerNoColon}

ParseSeparators == { <<>>, <<" ">>, <<"\r","\n">> }

ParseTokens == { W_Ann, <<"@","x",".","i","o">>, <<"a","n","n","@">>,
                 <<"a","n","n","x",".","i","o">>, <<>>, <<"a","@","b","@","c">> }

ParseSuffixes == { <<>>, W_Bye }

PARSE_INPUTS ==
    {pre \o <<" ">> \o mk \o <<" ">> \o tok :
        pre \in ParsePreambles, mk \in ParseMarkers, tok \in ParseTokens}
    \cup {W_Hello \o <<" ">> \o W_Marker \o sep \o W_Ann \o sfx :
              sep \in ParseSeparators, sfx \in ParseSuffixes}
    \cup {W_Example, W_Long}

\* the state of the pipeline, which these specifications leave alone
PipelineIdle ==
    /\ remote = FALSE
    /\ mailbox = <<>>
    /\ content = [m \in MsgIds |-> 0]
    /\ sheet = <<HEADER>>
    /\ rowCount = INITIAL_ROWS
    /\ store_exists = FALSE
    /\ stored_ids = {}
    /\ stored_last_run = 0
    /\ outbox = <<>>
    /\ clock = 0
    /\ pc = "idle"
    /\ processed_ids = {}
    /\ all_messages = <<>>
    /\ page = 0
    /\ new_messages = <<>>
    /\ seen_emails = {}
    /\ rows_to_add = <<>>
    /\ errors = <<>>
    /\ stats = ZeroStats
    /\ i = 0
    /\ next_row = 0
    /\ start = 0
    /\ outcomes = <<>>
    /\ last_call = NoCall
    /\ order = <<>>
    /\ hist = NoRun
    /\ rt = NoRetry

InitParse ==
    /\ \E text \in PARSE_INPUTS :
        pure = [fn |-> "parse", arg |-> text, arg2 |-> <<>>, done |-> FALSE,
                parsed |-> None, valid |-> FALSE, text |-> <<>>]
    /\ PipelineIdle

ApplyParse ==
    /\ pure.fn = "parse"
    /\ ~pure.done
    /\ pure' = [pure EXCEPT !.done = TRUE, !.parsed = parse_email_body(pure.arg)]
    /\ UNCHANGED <<envVars, runVars, obsVars, rt>>

NextParse == ApplyParse

SpecParse == InitParse /\ [][NextParse]_vars

(***************************************************************************)
(* The validators alone: an address, or a last name and a first name, is   *)
(* drawn and the validator is applied to it.                               *)
(***************************************************************************)
ValidLocals ==
    { <<"a","n","n">>, <<"a","n">>, <<>>, <<"a","d","m","i","n">>, <<"A","D","M","I","N">>,
      <<"1","2","3">>, <<"a","a","a","a">>, <<"a","b","a","b">>, <<"a","a","b">>,
      <<"a","@","b">>, <<" ","a","n","n">>, <<"B","l","k">> }

ValidDomains ==
    { <<"x",".","i","o">>, <<"y","o","p",".","i","o">>, <<"Y","O","P",".","i","o">>,
      <<"x","i","o">>, <<"x",".","i","o"," ">> }

EMAIL_INPUTS ==
    {l \o <<"@">> \o d : l \in ValidLocals, d \in ValidDomains}
    \cup {l \o d : l \in ValidLocals, d \in ValidDomains}
    \cup EMAIL_BLACKLIST
    \cup {PyNone, <<" "," ">>}

NAME_INPUTS ==
    { PyNone, <<>>, <<"a">>, <<"a"," ">>, <<"L","i">>, <<" ","L","i"," ">>, <<"B","o">>,
      <<"t","e","s","t">>, <<"T","E","S","T"," ">>, <<"1","2">>, <<"a","a">>, <<"A","a","a">> }

InitValid ==
    /\ \/ \E email \in EMAIL_INPUTS :
            pure = [fn |-> "email", arg |-> email, arg2 |-> <<>>, done |-> FALSE,
                    parsed |-> None, valid |-> FALSE, text |-> <<>>]
       \/ \E nom \in NAME_INPUTS, prenom \in NAME_INPUTS :
            pure = [fn |-> "name", arg |-> nom, arg2 |-> prenom, done |-> FALSE,
                    parsed |-> None, valid |-> FALSE, text |-> <<>>]
    /\ PipelineIdle

ApplyEmail ==
    /\ pure.fn = "email"
    /\ ~pure.done
    /\ pure' = [pure EXCEPT !.done = TRUE, !.valid = is_valid_email(pure.arg)]
    /\ UNCHANGED <<envVars, runVars, obsVars, rt>>

ApplyName ==
    /\ pure.fn = "name"
    /\ ~pure.done
    /\ pure' = [pure EXCEPT !.done = TRUE, !.valid = is_valid_name(pure.arg, pure.arg2)]
    /\ UNCHANGED <<envVars, runVars, obsVars, rt>>

NextValid == ApplyEmail \/ ApplyName

SpecValid == InitValid /\ [][NextValid]_vars

(***************************************************************************)
(* get_email_body alone: a payload is drawn and the function is applied to *)
(* it. A payload is either a single part, whose body holds the data, or a  *)
(* multipart, whose body is empty and whose parts may hold parts.          *)
(***************************************************************************)
BODY_INPUTS ==
    LET plainSub == Part("text/plain", <<"b">>, <<>>)
        htmlSub == Part("text/html", W_HtmlHello, <<>>)
        shapes == { Part("text/plain", <<"a">>, <<>>),
                    Part("text/plain", <<>>, <<>>),
                    Part("text/html", <<"<","b",">"," ","h","i"," "," ","<","/","b",">">>, <<>>),
                    Part("text/html", <<>>, <<>>),
                    Part("multipart/alternative", <<>>, <<plainSub>>),
                    Part("multipart/related", <<>>, <<htmlSub>>),
                    Part("multipart/alternative", <<>>, <<htmlSub, plainSub>>) }
    IN
    { [mimeType |-> "text/plain", body |-> W_Hello, parts |-> <<>>],
      [mimeType |-> "text/html", body |-> W_HtmlHello, parts |-> <<>>],
      [mimeType |-> "multipart/mixed", body |-> <<>>, parts |-> <<>>] }
    \cup {[mimeType |-> "multipart/mixed", body |-> <<>>, parts |-> <<p>>] : p \in shapes}
    \cup {[mimeType |-> "multipart/mixed", body |-> <<>>, parts |-> <<p, q>>] :
            p \in shapes, q \in shapes}

InitBody ==
    /\ \E message \in BODY_INPUTS :
        pure = [fn |-> "body", arg |-> message, arg2 |-> <<>>, done |-> FALSE,
                parsed |-> None, valid |-> FALSE, text |-> <<>>]
    /\ PipelineIdle

ApplyBody ==
    /\ pure.fn = "body"
    /\ ~pure.done
    /\ pure' = [pure EXCEPT !.done = TRUE, !.text = get_email_body(pure.arg)]
    /\ UNCHANGED <<envVars, runVars, obsVars, rt>>

NextBody == ApplyBody

SpecBody == InitBody /\ [][NextBody]_vars

(***************************************************************************)
(* update_subdomains.py: the script reads column B of the destination      *)
(* sheet, converts its values with the mapping of the configuration and    *)
(* writes the column back. It is run on a sheet whose rows have the layout *)
(* main gives them: the commerce name in column A, the category in column  *)
(* B; a cell of column B may also hold a commerce name typed by hand.      *)
(***************************************************************************)
\* the runs of the script
MaxUpdates == 2

\* commerce_to_subdomain of config.json, in the order of the file
COMMERCE_TO_SUBDOMAIN ==
    << [commerce |-> <<"B","K">>, subdomain |-> <<"b","k",".","c","h">>],
       [commerce |-> <<"L","i"," ","S","h","o","p">>, subdomain |-> <<"l","i",".","c","h">>] >>

convert_commerce_to_subdomain(nom_commerce) ==
    LET exact == {k \in 1..Len(COMMERCE_TO_SUBDOMAIN) :
                    COMMERCE_TO_SUBDOMAIN[k].commerce = nom_commerce}
        nom_lower == Strip(Lower(nom_commerce))
        loose == {k \in 1..Len(COMMERCE_TO_SUBDOMAIN) :
                    Strip(Lower(COMMERCE_TO_SUBDOMAIN[k].commerce)) = nom_lower}
    IN
    IF nom_commerce = <<>> THEN nom_commerce
    ELSE IF exact # {} THEN COMMERCE_TO_SUBDOMAIN[CHOOSE k \in exact : TRUE].subdomain
    ELSE IF loose # {}
    THEN COMMERCE_TO_SUBDOMAIN[CHOOSE k \in loose : \A j \in loose : k <= j].subdomain
    ELSE nom_commerce

\* the sheets the script is run on: the header and up to two rows
SUBDOMAIN_SHEETS ==
    LET names == { <<"B","K">>, <<" ","b","k">>, <<"Z","e","d">>, <<"b","k",".","c","h">>, <<>> }
        cells == { <<"F","a","s","t","-","f","o","o","d">>, <<>>, <<"B","K">>, <<" ","b","k">> }
        rows == { <<a, b, "Autre", <<"L","i">>, <<"B","o">>, "", W_Ann, "Pending", 1,
                    "06/02/2025", <<"o","k">> >> : a \in names, b \in cells }
    IN {<<HEADER>>} \cup {<<HEADER, r>> : r \in rows} \cup {<<HEADER, r, s>> : r \in rows, s \in rows}

InitSubdomains ==
    /\ sheet \in SUBDOMAIN_SHEETS
    /\ pure = [fn |-> "update_subdomains", before |-> <<>>, raised |-> "none",
               converted_count |-> 0, written |-> FALSE, completed |-> 0]
    /\ remote = FALSE
    /\ mailbox = <<>>
    /\ content = [m \in MsgIds |-> 0]
    /\ rowCount = Len(sheet) + GROW_MARGIN
    /\ store_exists = FALSE
    /\ stored_ids = {}
    /\ stored_last_run = 0
    /\ outbox = <<>>
    /\ clock = 0
    /\ pc = "idle"
    /\ processed_ids = {}
    /\ all_messages = <<>>
    /\ page = 0
    /\ new_messages = <<>>
    /\ seen_emails = {}
    /\ rows_to_add = <<>>
    /\ errors = <<>>
    /\ stats = ZeroStats
    /\ i = 0
    /\ next_row = 0
    /\ start = 0
    /\ outcomes = <<>>
    /\ last_call = NoCall
    /\ order = <<>>
    /\ hist = NoRun
    /\ rt = NoRetry

\* main of update_subdomains.py, lines 94-151. raised: the call that raises, the
\* read of line 96 or the write of line 146; the script has no handler, it ends
\* there. values: the rows of column B down to the last cell that is not empty
update_subdomains_main ==
    /\ pure.fn = "update_subdomains"
    /\ clock < MaxUpdates
    /\ clock' = clock + 1
    /\ LET filled == {r \in 2..Len(sheet) : sheet[r][2] # <<>>}
           values == IF filled = {} THEN 1 ELSE CHOOSE r \in filled : \A x \in filled : r >= x
           converted == [r \in 2..values |-> convert_commerce_to_subdomain(sheet[r][2])]
           converted_count == Cardinality({r \in 2..values : converted[r] # sheet[r][2]})
           writes == values > 1 /\ converted_count > 0
       IN
       \E raised \in {"none", "get"} \cup (IF writes THEN {"update"} ELSE {}) :
          /\ sheet' = IF raised = "none" /\ writes
                      THEN [r \in 1..Len(sheet) |->
                              IF r \in 2..values THEN [sheet[r] EXCEPT ![2] = converted[r]]
                              ELSE sheet[r]]
                      ELSE sheet
          /\ pure' = [fn |-> "update_subdomains", before |-> sheet, raised |-> raised,
                      converted_count |-> IF raised = "get" THEN 0 ELSE converted_count,
                      written |-> raised = "none" /\ writes,
                      completed |-> IF raised = "none" THEN pure.completed + 1
                                    ELSE pure.completed]
    /\ UNCHANGED <<remote, mailbox, content, rowCount, store_exists, stored_ids,
                   stored_last_run, outbox, runVars, obsVars, rt>>

NextSubdomains == update_subdomains_main

SpecSubdomains == InitSubdomains /\ [][NextSubdomains]_vars

(***************************************************************************)
(* Properties of the message loop.                                         *)
(***************************************************************************)
\* the positions of the program after the loop of lines 597-665
AfterLoop == {"flush_read", "ensure_get", "ensure_grow", "write", "save", "notify"}

OutcomeKinds == FilterKeys \cup {"accepted", "error"}

\* the messages of new_messages handled so far that ended in outcome o
EndedIn(o) == {k \in 1..Len(outcomes) : outcomes[k] = o}

\* len(rows_to_add) + sum(stats.values()) + len(errors)
Accounted ==
    Len(rows_to_add) + stats["no_email"] + stats["invalid_email"] + stats["duplicate"]
    + stats["invalid_name"] + stats["invalid_comment"] + Len(errors)

\* what lines 608-611 extracted from the k-th new message
ExtractedAt(k) == EXTRACTED[content[new_messages[k]]]

\* C1: every new message ends in exactly one outcome (a row, one of the five
\* rejection counters, or an error), the rows, counters and errors count the
\* messages of each outcome, and once the loop has finished
\* len(rows_to_add) + the five counters + len(errors) = len(new_messages).
C1_OneOutcomePerMessage ==
    /\ \A k \in 1..Len(outcomes) : outcomes[k] \in OutcomeKinds
    /\ Len(rows_to_add) = Cardinality(EndedIn("accepted"))
    /\ Len(errors) = Cardinality(EndedIn("error"))
    /\ \A f \in FilterKeys : stats[f] = Cardinality(EndedIn(f))
    /\ pc = "loop" => Len(outcomes) = i - 1 /\ Accounted = i - 1
    /\ pc \in AfterLoop => Len(outcomes) = Len(new_messages) /\ Accounted = Len(new_messages)

\* a loop that finished with one row, one rejection or error, two messages
C1_Witness ==
    /\ pc \in AfterLoop
    /\ Len(new_messages) = 2
    /\ Len(rows_to_add) = 1
    /\ Len(errors) + stats["invalid_name"] = 1

\* the k-th new message was parsed and gave an address
HasEmail(k) == outcomes[k] # "error" /\ ExtractedAt(k).parsed.found

\* its address lowercased and trimmed
NormalizedEmail(k) == Strip(Lower(ExtractedAt(k).parsed.email))

\* two distinct new messages, a before b, with the same normalized address
SameEmail(a, b) ==
    a < b /\ HasEmail(a) /\ HasEmail(b) /\ NormalizedEmail(a) = NormalizedEmail(b)

\* the accepted rows of the run that carry the address e
RowsFor(e) == {r \in 1..Len(rows_to_add) : Strip(Lower(rows_to_add[r][7])) = e}

\* the addresses of the sheet, as load_existing_emails reads them
SheetEmails == load_existing_emails([raised |-> FALSE])

\* C2 as stated, read for an address that passes is_valid_email and is not in
\* the sheet: two distinct new messages of a run with the same normalized
\* address give exactly one accepted row for it, and the second is a duplicate.
C2_ExactlyOneRow ==
    \A a, b \in 1..Len(outcomes) :
        (/\ SameEmail(a, b)
         /\ is_valid_email(ExtractedAt(b).parsed.email)
         /\ NormalizedEmail(a) \notin SheetEmails) =>
            /\ outcomes[b] = "duplicate"
            /\ Cardinality(RowsFor(NormalizedEmail(a))) = 1

(***************************************************************************)
(* Properties of the checkpoint across runs.                               *)
(***************************************************************************)
\* the positions of a run between the filter of line 571 and save_state: the
\* store is the one the run found
InRun == {"load_existing", "loop", "flush_read", "ensure_get", "ensure_grow", "write", "save"}

\* the run in progress repeats a completed run: the mailbox is the same, the
\* checkpoint of that run was persisted whole and has been loaded
Repeats ==
    /\ pc \in InRun \cup {"notify"}
    /\ hist.ended = "completed"
    /\ hist.saved
    /\ hist.unchanged
    /\ hist.load_ok

C4_FirstFailingCheck ==
    [][(Len(outcomes') = Len(outcomes) + 1 /\ outcomes'[Len(outcomes')] # "error") =>
        LET p == ExtractedAt(i).parsed
            o == outcomes'[Len(outcomes')]
            email_ok == is_valid_email(p.email)
            dup == Strip(Lower(p.email)) \in seen_emails
            name_ok == is_valid_name(p.nom, p.prenom)
            comment_ok == is_valid_comment(p.commentaire)
        IN
        /\ (o = "no_email") <=> ~p.found
        /\ p.found =>
            /\ (o = "invalid_email") <=> ~email_ok
            /\ (o = "duplicate") <=> (email_ok /\ dup)
            /\ (o = "invalid_name") <=> (email_ok /\ ~dup /\ ~name_ok)
            /\ (o = "invalid_comment") <=> (email_ok /\ ~dup /\ name_ok /\ ~comment_ok)
            /\ (o = "accepted") <=> (email_ok /\ ~dup /\ name_ok /\ comment_ok)
        /\ \A f \in FilterKeys : stats'[f] = stats[f] + (IF f = o THEN 1 ELSE 0)
      ]_vars

\* a message that is a duplicate and has an invalid name: counted as duplicate
C4_Witness ==
    \E k \in 1..Len(outcomes) :
        /\ outcomes[k] = "duplicate"
        /\ ~is_valid_name(ExtractedAt(k).parsed.nom, ExtractedAt(k).parsed.prenom)

\* C5: a message whose fetch or reading fails is recorded in errors with its
\* identifier and is not added to processed_ids; the loop goes on to the last
\* message and no run is aborted by a fetch; save_state does not persist the
\* identifier (it stays out of the store unless it was there before the run), so
\* the next run finds the message new again.
C5_ErrorsAreRetried ==
    /\ \A k \in 1..Len(outcomes) :
        outcomes[k] = "error" =>
            /\ \E e \in 1..Len(errors) : errors[e].id = new_messages[k]
            /\ new_messages[k] \notin processed_ids
    /\ pc \in AfterLoop => Len(outcomes) = Len(new_messages)
    /\ (pc = "idle" /\ hist.ended = "aborted") => last_call.site # "fetch"
    /\ pc = "idle" => (hist.err \cap stored_ids) \subseteq hist.before
    /\ pc \in InRun => (hist.err \ stored_ids) \subseteq Range(new_messages)

\* a message that failed in one run is accepted by the next
C5_Witness ==
    /\ pc \in InRun
    /\ \E k \in 1..Len(outcomes) :
        new_messages[k] \in hist.err /\ outcomes[k] = "accepted"

C7_NeverShrinks ==
    [][(stored_ids \ stored_ids') # {} =>
            (remote /\ pc = "save" /\ Cardinality(processed_ids) > KEEP_IDS)]_vars

\* the identifiers of processed_ids, the most recently checkpointed last
ByRecency == SelectSeq(order, LAMBDA m : m \in processed_ids)

\* C8 as stated: given more than KEEP_IDS identifiers, the remote store keeps
\* the KEEP_IDS most recently processed ones.
C8_KeepsMostRecent ==
    [][(/\ remote
        /\ pc = "save"
        /\ Cardinality(processed_ids) > KEEP_IDS
        /\ last_call' = [site |-> "save_state", result |-> "ok"]) =>
            stored_ids' = Range(LastKept(ByRecency))]_vars

(***************************************************************************)
(* Properties of the remote calls.                                         *)
(***************************************************************************)
\* the first call that returns or fails with a 4xx other than 429 (0: none)
Deciding(resp) ==
    LET ends == {k \in 1..Len(resp) :
                    resp[k] = 200 \/ (resp[k] >= 400 /\ resp[k] < 500 /\ resp[k] # 429)}
    IN IF ends = {} THEN 0 ELSE CHOOSE k \in ends : \A j \in ends : k <= j

\* C9: the function is called until it returns or fails with a 4xx other than
\* 429, at most max_retries times; before each further call the wrapper sleeps,
\* initial_delay first and twice the previous delay after; it does not sleep
\* after the last call; when the last call failed, its error is raised.
C9_RetryWithBackoff ==
    rt.done =>
        LET calls == IF Deciding(rt.resp) = 0 THEN rt.max_retries ELSE Deciding(rt.resp) IN
        /\ rt.result.calls = calls
        /\ rt.result.calls <= rt.max_retries
        /\ Len(rt.result.sleeps) = (IF calls = 0 THEN 0 ELSE calls - 1)
        /\ \A k \in 1..Len(rt.result.sleeps) :
                rt.result.sleeps[k] = rt.initial_delay * 2 ^ (k - 1)
        /\ rt.result.raised <=> (calls = 0 \/ rt.resp[calls] # 200)
        /\ (rt.result.raised /\ calls > 0) => rt.result.error = rt.resp[calls]

\* three transient failures: two sleeps, the second twice the first, the last error raised
C9_Witness ==
    /\ rt.done
    /\ rt.resp = <<503, 429, 500>>
    /\ rt.initial_delay = 2
    /\ rt.result = [raised |-> TRUE, error |-> 500, calls |-> 3, sleeps |-> <<2, 4>>]

\* the calls of a run made through api_call_with_retry
RetrySites == {"list", "existing", "fetch", "flush_read", "ensure_get", "ensure_grow", "write"}

\* the last call of the run exhausted its retries on a transient failure
Exhausted(sites) == last_call.result = "transient" /\ last_call.site \in sites

\* C10 as stated: a transient failure that outlasts the retries of any call of
\* the run aborts the run.
C10_Original == Exhausted(RetrySites) => (pc = "idle" /\ hist.ended = "aborted")

\* C10, amended: it aborts the run when the call is the listing or a call of the
\* flush; the fetch of a message gives a per-message error and the loop goes
\* on; the read of the existing addresses gives the empty set and the run
\* goes on.
C10_TransientExhausted ==
    /\ Exhausted({"list", "flush_read", "ensure_get", "ensure_grow", "write"}) =>
            (pc = "idle" /\ hist.ended = "aborted")
    /\ Exhausted({"fetch"}) =>
            /\ pc \in {"loop", "flush_read", "save"}
            /\ outcomes[Len(outcomes)] = "error"
            /\ errors[Len(errors)] = [id |-> new_messages[Len(outcomes)], kind |-> "fetch"]
    /\ Exhausted({"existing"}) => (pc = "loop" /\ seen_emails = {})

\* a write of the flush that exhausted its retries: the run is aborted
C10_Witness ==
    /\ Exhausted({"write"})
    /\ pc = "idle"
    /\ hist.ended = "aborted"

(***************************************************************************)
(* Properties of a run that is killed and run again.                       *)
(***************************************************************************)
\* the mail c, alone in front of an empty sheet, would be accepted
Acceptable(c) ==
    /\ MAILS[c].decodable
    /\ Classify(EXTRACTED[c].parsed, {}) = "accepted"

\* the rows of the sheet below the header that carry the address e
SinkRowsOf(e) == {r \in 2..Len(sheet) : Strip(Lower(sheet[r][7])) = e}

\* no two mails of the mailbox give the same normalized address
DistinctAddresses ==
    \A a, b \in Range(mailbox) :
        (/\ a # b
         /\ EXTRACTED[content[a]].parsed.found
         /\ EXTRACTED[content[b]].parsed.found) =>
            email_lower(EXTRACTED[content[a]].parsed) # email_lower(EXTRACTED[content[b]].parsed)

\* a run was killed, and the next run, on the same mailbox, went to its end
\* without an error on a message
Recovered ==
    /\ pc = "idle"
    /\ hist.ended \in {"completed", "returned"}
    /\ hist.recover
    /\ hist.unchanged
    /\ hist.err = {}

\* C11 as stated, read for a mailbox of distinct addresses: after a run killed
\* at any point and one complete rerun on the same mailbox, every message that
\* would be accepted has exactly one row in the sheet.
C11_CrashLosesNothing ==
    (Recovered /\ DistinctAddresses) =>
        \A m \in Range(mailbox) :
            Acceptable(content[m]) =>
                Cardinality(SinkRowsOf(email_lower(EXTRACTED[content[m]].parsed))) = 1

\* C12: the sheet is written only by the flush, after the last new message of
\* the run has been handled; a run that ends before that leaves the sheet as
\* it found it.
C12_WritesAfterScan ==
    [][sheet' # sheet =>
        /\ pc = "write"
        /\ Len(outcomes) = Len(new_messages)
        /\ i > Len(new_messages)
        /\ rows_to_add # <<>>]_vars

\* a run killed in the loop with a row accepted and a message left: no row written
C12_Witness ==
    /\ pc = "idle"
    /\ hist.ended = "crashed"
    /\ hist.rows = 1
    /\ last_call.site = "fetch"
    /\ Len(mailbox) = 2
    /\ sheet = <<HEADER>>

(***************************************************************************)
(* Properties of parse_email_body. The reply-to marker and the token that  *)
(* follows it are found here by scanning the text, without the patterns.   *)
(***************************************************************************)
\* a text has been parsed
Parsed == pure.fn = "parse" /\ pure.done

\* the text the parser works on, after line 383
Normalized(raw) == Strip(NormalizeNewlines(raw))

\* the reply-to marker, with or without its accent, in any case, follows the
\* first p characters of text
MarkerAt(text, p) == WordAt(text, p, W_Marker) \/ WordAt(text, p, W_MarkerPlain)

Markers(text) == {p \in 0..Len(text) : MarkerAt(text, p)}

\* the token after the marker at p: the characters from the first one that is
\* not a space up to the next space
TokenAfter(text, p) ==
    LET from == p + Len(W_Marker) + RunLen(text, p + Len(W_Marker), Cls("sp", "*"))
    IN Slice(text, from, from + RunLen(text, from, Cls("nsp", "+")))

\* the token has an "@" with a character on each side
IsAddress(tok) == \E j \in 2..(Len(tok) - 1) : tok[j] = "@"

FirstAddress(text) ==
    LET ps == {p \in Markers(text) : IsAddress(TokenAfter(text, p))}
    IN CHOOSE p \in ps : \A q \in ps : p <= q

\* the preamble: the text before that marker, trimmed
Preamble(text) == Strip(Slice(text, 0, FirstAddress(text)))

\* the fields the specification gives for its well-formed text
ExampleReview ==
    Review("Homme", <<"D","u","p","o","n","t">>, <<"J","e","a","n">>,
           <<"j","e","a","n",".","d","u","p","o","n","t","@","e","x","a","m","p","l","e",".","c","o","m">>,
           <<"G","r","e","a","t"," ","s","e","r","v","i","c","e","!">>)

\* C14: the record is that of the first pattern that matches the preamble, in
\* the order honorific + last name + first name, honorific + last name, last
\* name + first name, last name: a genre exactly for the first two, a first
\* name exactly for the first and the third; the well-formed text of the
\* specification gives Homme, Dupont, Jean, its comment and its address.
C14_FirstPatternWins ==
    (Parsed /\ pure.parsed.found) =>
        LET before == Preamble(Normalized(pure.arg))
            email == pure.parsed.email
            m1 == ReMatch(pattern1, before)
            m2 == ReMatch(pattern2, before)
            m3 == ReMatch(pattern3, before)
            m4 == ReMatch(pattern4, before)
        IN
        /\ m1.ok => /\ pure.parsed = result1(before, email, m1)
                    /\ pure.parsed.genre # "" /\ pure.parsed.prenom # <<>>
        /\ (~m1.ok /\ m2.ok) => /\ pure.parsed = result2(before, email, m2)
                                /\ pure.parsed.genre # "" /\ pure.parsed.prenom = <<>>
        /\ (~m1.ok /\ ~m2.ok /\ m3.ok) =>
                /\ pure.parsed = result3(before, email, m3)
                /\ pure.parsed.genre = "" /\ pure.parsed.prenom # <<>>
        /\ (~m1.ok /\ ~m2.ok /\ ~m3.ok /\ m4.ok) =>
                /\ pure.parsed = result4(before, email, m4)
                /\ pure.parsed.genre = "" /\ pure.parsed.prenom = <<>>
        /\ pure.arg = W_Example => pure.parsed = ExampleReview

\* the well-formed text, which the first and the third pattern match, parsed
C14_Witness ==
    /\ Parsed
    /\ pure.arg = W_Example
    /\ pure.parsed.genre = "Homme"
    /\ ReMatch(pattern3, Preamble(Normalized(pure.arg))).ok

\* no pattern matches the preamble
Unrecognized(before) ==
    /\ ~ReMatch(pattern1, before).ok
    /\ ~ReMatch(pattern2, before).ok
    /\ ~ReMatch(pattern3, before).ok
    /\ ~ReMatch(pattern4, before).ok

\* C15: when an address is found and no pattern matches the preamble, the
\* record has no genre, no last name, no first name, a non-empty email, and a
\* comment that is the unrecognized-format marker followed by the preamble,
\* cut after its first UNRECOGNIZED_KEEP characters.
C15_UnrecognizedFormat ==
    (Parsed /\ pure.parsed.found /\ Unrecognized(Preamble(Normalized(pure.arg)))) =>
        LET before == Preamble(Normalized(pure.arg))
            kept == Len(pure.parsed.commentaire) - Len(UNRECOGNIZED_MARKER)
        IN
        /\ pure.parsed.genre = ""
        /\ pure.parsed.nom = <<>>
        /\ pure.parsed.prenom = <<>>
        /\ Len(pure.parsed.email) > 0
        /\ kept = MinOf(Len(before), UNRECOGNIZED_KEEP)
        /\ pure.parsed.commentaire = UNRECOGNIZED_MARKER \o SubSeq(before, 1, kept)

\* a preamble longer than UNRECOGNIZED_KEEP characters, cut
C15_Witness ==
    /\ Parsed
    /\ pure.arg = W_Long
    /\ pure.parsed.found
    /\ Len(Preamble(Normalized(pure.arg))) > UNRECOGNIZED_KEEP
    /\ Len(pure.parsed.commentaire) = Len(UNRECOGNIZED_MARKER) + UNRECOGNIZED_KEEP

(***************************************************************************)
(* Properties of the validators.                                           *)
(***************************************************************************)
EmailChecked == pure.fn = "email" /\ pure.done
NameChecked == pure.fn = "name" /\ pure.done

\* C16 as stated: an address that is a member of the configured blacklist is
\* rejected.
C16_BlacklistRejected ==
    (EmailChecked /\ pure.arg \in EMAIL_BLACKLIST) => ~pure.valid

\* the address lowercased and trimmed, its part before the last "@" and the rest
NormalizedAddress(email) == Strip(Lower(OrEmpty(email)))
LocalPart(e) == Slice(e, 0, LastIndexOf(e, "@") - 1)
DomainPart(e) == Slice(e, LastIndexOf(e, "@"), Len(e))

\* the reasons of a rejection, read on the address lowercased and trimmed
Rejected(email) ==
    LET e == NormalizedAddress(email) IN
    \/ Len(OrEmpty(email)) = 0
    \/ e \in EMAIL_BLACKLIST
    \/ ~HasChar(e, "@")
    \/ ~HasChar(e, ".")
    \/ /\ HasChar(e, "@")
       /\ \/ Len(LocalPart(e)) < 3
          \/ DomainPart(e) \in DISPOSABLE_DOMAINS
          \/ LocalPart(e) \in SPAM_KEYWORDS
          \/ IsDigit(LocalPart(e))
          \/ Len(LocalPart(e)) > 3 /\ Cardinality(CharSet(LocalPart(e))) <= 2

\* C17: is_valid_email is false exactly for an input that is empty or whose
\* lowercased, trimmed form is in the blacklist, lacks "@" or ".", has a part
\* before its last "@" shorter than 3, a disposable domain, a local part that
\* is a spam keyword, all digits, or longer than 3 with at most 2 distinct
\* characters; a local part shorter than 3 is rejected whatever the domain.
C17_RejectsExactly ==
    EmailChecked =>
        /\ ~pure.valid <=> Rejected(pure.arg)
        /\ (/\ HasChar(NormalizedAddress(pure.arg), "@")
            /\ Len(LocalPart(NormalizedAddress(pure.arg))) < 3) => ~pure.valid

\* an address with two "@" whose part before the last one has three characters
\* and whose domain is not a disposable one: accepted
C17_Witness ==
    /\ EmailChecked
    /\ pure.valid
    /\ pure.arg = <<"a","@","b","@","x",".","i","o">>

\* the name lowercased and trimmed; None is the empty name
NormalizedName(name) == Strip(Lower(OrEmpty(name)))

SuspiciousName(name) ==
    LET n == NormalizedName(name) IN
    \/ Len(n) <= 1
    \/ n \in SUSPICIOUS_NAMES
    \/ IsDigit(n)
    \/ Len(n) > 1 /\ Cardinality(CharSet(n)) = 1

\* C18: is_valid_name is false exactly when the last name or the first name,
\* lowercased and trimmed, has at most one character, is a suspicious name, is
\* all digits or repeats one character; None and the empty name give false.
C18_NameRejectedExactly ==
    NameChecked =>
        /\ ~pure.valid <=> (SuspiciousName(pure.arg) \/ SuspiciousName(pure.arg2))
        /\ (pure.arg \in {PyNone, <<>>} \/ pure.arg2 \in {PyNone, <<>>}) => ~pure.valid

\* a last name that has one character once trimmed, with None as first name
C18_Witness ==
    /\ NameChecked
    /\ pure.arg = <<"a"," ">>
    /\ pure.arg2 = PyNone
    /\ ~pure.valid

\* C19 as stated: with more than one marker in the text, the email is the token
\* after the first marker and the preamble is the text before that marker.
C19_Original ==
    (Parsed /\ pure.parsed.found /\ Cardinality(Markers(Normalized(pure.arg))) > 1) =>
        LET text == Normalized(pure.arg)
            first == CHOOSE p \in Markers(text) : \A q \in Markers(text) : p <= q
        IN
        /\ pure.parsed.email = TokenAfter(text, first)
        /\ pure.parsed = parse_before(Strip(Slice(text, 0, first)), pure.parsed.email)

\* C19, amended: the email is the token after the first marker that an address
\* follows, and the preamble is the text before that marker; a marker before
\* it that no address follows is part of the preamble.
C19_FirstAddressWins ==
    (Parsed /\ pure.parsed.found) =>
        LET text == Normalized(pure.arg) IN
        /\ pure.parsed.email = TokenAfter(text, FirstAddress(text))
        /\ pure.parsed = parse_before(Preamble(text), pure.parsed.email)

\* two markers with an address each: the email of the first
C19_Witness ==
    /\ Parsed
    /\ pure.parsed.found
    /\ Cardinality({p \in Markers(Normalized(pure.arg)) :
                       IsAddress(TokenAfter(Normalized(pure.arg), p))}) = 2
    /\ pure.parsed.email = <<"b","@","c",".","d">>

\* C20 as stated: when the preamble is empty once trimmed, no pattern matches
\* and the comment of the record is empty.
C20_Original ==
    (Parsed /\ pure.parsed.found /\ Preamble(Normalized(pure.arg)) = <<>>) =>
        /\ Unrecognized(Preamble(Normalized(pure.arg)))
        /\ pure.parsed.commentaire = <<>>

\* C20, amended: no pattern matches, the names and the genre are empty, and the
\* comment is the unrecognized-format marker alone, which is not empty.
C20_EmptyPreamble ==
    (Parsed /\ pure.parsed.found /\ Preamble(Normalized(pure.arg)) = <<>>) =>
        /\ Unrecognized(Preamble(Normalized(pure.arg)))
        /\ pure.parsed.genre = ""
        /\ pure.parsed.nom = <<>>
        /\ pure.parsed.prenom = <<>>
        /\ pure.parsed.commentaire = UNRECOGNIZED_MARKER
        /\ pure.parsed.commentaire # <<>>

\* a text that starts with spaces and the marker, parsed
C20_Witness ==
    /\ Parsed
    /\ pure.parsed.found
    /\ IsSpace(pure.arg[1])
    /\ Preamble(Normalized(pure.arg)) = <<>>
    /\ pure.parsed.commentaire = UNRECOGNIZED_MARKER

(***************************************************************************)
(* Properties of the flush and of the end of a run.                        *)
(***************************************************************************)
\* C21: whenever rows are written, the grid already holds the last row of the
\* flush; a batch has at most BATCH_SIZE rows, taken from the accepted rows in
\* their order, and lands right after the rows the sheet holds: the first batch
\* after the existing data, each next one after the batch before, and no row
\* that the sheet held is replaced.
C21_BatchesAppend ==
    [][sheet' # sheet =>
        /\ pc = "write"
        /\ rowCount >= next_row + Len(rows_to_add) - 1
        /\ next_row + start = Len(sheet) + 1
        /\ Len(sheet') - Len(sheet) \in 1..BATCH_SIZE
        /\ \A r \in 1..Len(sheet) : sheet'[r] = sheet[r]
        /\ \A k \in 1..(Len(sheet') - Len(sheet)) :
              sheet'[Len(sheet) + k] = rows_to_add[start + k]]_vars

(***************************************************************************)
(* Properties of get_email_body.                                           *)
(***************************************************************************)
BodyRead == pure.fn = "body" /\ pure.done

\* the data of the parts of a type: the payload itself when it is a single
\* part, its parts, and their parts
DataOf(message, type) ==
    (IF message.mimeType = type /\ message.body # <<>> THEN {message.body} ELSE {})
    \cup {message.parts[p].data : p \in {k \in 1..Len(message.parts) :
            message.parts[k].mimeType = type /\ message.parts[k].data # <<>>}}
    \cup UNION {
           {message.parts[p].parts[s].data : s \in {k \in 1..Len(message.parts[p].parts) :
               /\ message.parts[p].parts[k].mimeType = type
               /\ message.parts[p].parts[k].data # <<>>}} : p \in 1..Len(message.parts)}

\* C22: the body read from a message that has a plain-text part is the text of
\* a plain-text part; the body read from a message that has none and has an HTML
\* part is the HTML of a part, its tags replaced by spaces, the runs of
\* whitespace collapsed and the ends trimmed.
C22_PlainElseHtml ==
    BodyRead =>
        /\ DataOf(pure.arg, "text/plain") # {} =>
              pure.text \in DataOf(pure.arg, "text/plain")
        /\ (DataOf(pure.arg, "text/plain") = {} /\ DataOf(pure.arg, "text/html") # {}) =>
              pure.text \in {Strip(CollapseSpaces(StripTags(h))) :
                                h \in DataOf(pure.arg, "text/html")}

\* the case of parse_email_body that produced the record of mail c
ParseCase(c) ==
    IF ~EXTRACTED[c].parsed.found THEN "none"
    ELSE LET before == Preamble(Normalized(get_email_body(MAILS[c]))) IN
         IF ReMatch(pattern1, before).ok THEN "honorific, last name, first name"
         ELSE IF ReMatch(pattern2, before).ok THEN "honorific, last name"
         ELSE IF ReMatch(pattern3, before).ok THEN "last name, first name"
         ELSE IF ReMatch(pattern4, before).ok THEN "last name"
         ELSE "unrecognized"

PARSE_CASES == [c \in 1..Len(MAILS) |-> ParseCase(c)]

\* the rows accepted in the run and the rows of the sheet under its header
AcceptedRows ==
    {rows_to_add[k] : k \in 1..Len(rows_to_add)} \cup {sheet[r] : r \in 2..Len(sheet)}

\* C23: every accepted row has a last name (column D) and a first name (column
\* E) of at least 2 characters once trimmed, and its comment (column K) does
\* not start with the unrecognized-format marker; an accepted message is one
\* whose record has both names, never one of the cases with an empty first name.
C23_AcceptedHasBothNames ==
    /\ \A row \in AcceptedRows :
          /\ Len(Strip(row[4])) >= 2
          /\ Len(Strip(row[5])) >= 2
          /\ Slice(row[11], 0, MinOf(Len(row[11]), Len(UNRECOGNIZED_MARKER)))
                # UNRECOGNIZED_MARKER
    /\ \A k \in 1..Len(outcomes) :
          outcomes[k] = "accepted" =>
              /\ ExtractedAt(k).parsed.prenom # <<>>
              /\ PARSE_CASES[content[new_messages[k]]] \in
                    {"honorific, last name, first name", "last name, first name"}

\* a run that rejected for its name a record of the unrecognized case, whose
\* address is valid and new, and accepted another message
C23_Witness ==
    /\ pc = "flush_read"
    /\ \E k \in 1..Len(outcomes) :
          /\ outcomes[k] = "invalid_name"
          /\ PARSE_CASES[content[new_messages[k]]] = "unrecognized"
          /\ ExtractedAt(k).parsed.prenom = <<>>
    /\ \E k \in 1..Len(outcomes) : outcomes[k] = "accepted"
    /\ Len(rows_to_add) = 1

\* C24: after runs that all ran to their end, on a sheet that started with its
\* header alone, no two rows of the sheet carry the same address once
\* lowercased and trimmed.
C24_NoTwoRowsPerAddress ==
    (pc = "idle" /\ hist.clean) =>
        \A a, b \in 2..Len(sheet) :
            a # b => Strip(Lower(sheet[a][7])) # Strip(Lower(sheet[b][7]))

\* the store of the checkpoint changes in the step
StoreWritten ==
    \/ stored_ids' # stored_ids
    \/ store_exists' # store_exists
    \/ stored_last_run' # stored_last_run

\* the accepted rows of the run are in the sheet, from next_row on
RowsWritten ==
    \A k \in 1..Len(rows_to_add) :
        /\ next_row + k - 1 <= Len(sheet)
        /\ sheet[next_row + k - 1] = rows_to_add[k]

\* the run of the step ends on a failure of a write of the sheet
WriteFails == pc = "write" /\ pc' = "idle"

\* C25 as stated: the store is written only by save_state, when every accepted
\* row of the run is in the sheet; a notification is sent only after save_state
\* has persisted the checkpoint; a run that ends on a failed write leaves the
\* store as it found it and sends nothing.
C25_Original ==
    [][/\ StoreWritten => (pc = "save" /\ RowsWritten)
       /\ outbox' # outbox => (pc = "notify" /\ hist.save_ok)
       /\ WriteFails => /\ hist'.ended = "aborted"
                        /\ stored_ids' = hist.before
                        /\ UNCHANGED <<store_exists, stored_ids, stored_last_run, outbox>>]_vars

\* C25, amended: the notification is sent only after save_state has returned,
\* whether or not it persisted the checkpoint.
C25_FlushSaveNotify ==
    [][/\ StoreWritten => (pc = "save" /\ RowsWritten)
       /\ outbox' # outbox => (pc = "notify" /\ last_call.site = "save_state")
       /\ WriteFails => /\ hist'.ended = "aborted"
                        /\ stored_ids' = hist.before
                        /\ UNCHANGED <<store_exists, stored_ids, stored_last_run, outbox>>]_vars

\* a run wrote two rows in two batches, its save_state failed, and its
\* notification was sent
C25_Witness ==
    /\ pc = "idle"
    /\ remote
    /\ hist.ended = "completed"
    /\ hist.rows = 2
    /\ ~hist.save_ok
    /\ Len(sheet) = 3
    /\ Len(outbox) = 1

\* what a run may change outside itself: the sheet, the checkpoint and its
\* last-run timestamp, the notifications
Effects == <<sheet, rowCount, store_exists, stored_ids, stored_last_run, outbox>>

\* C26: a run whose listing holds only checkpointed identifiers ends at the
\* filter, and no step of a run up to and including the filter writes the sheet,
\* the checkpoint, its last-run timestamp or a notification.
C26_NoNewMessageNoEffect ==
    [][/\ (pc = "filter" /\ Range(all_messages) \subseteq processed_ids) =>
             (pc' = "idle" /\ hist'.ended = "returned")
       /\ pc \in {"idle", "list", "filter"} => UNCHANGED Effects]_vars

\* the second run of a mailbox of two mails found both checkpointed and
\* returned: the sheet, the checkpoint and the outbox are those of the first
C26_Witness ==
    /\ pc = "idle"
    /\ clock = 2
    /\ hist.ended = "returned"
    /\ Len(mailbox) = 2
    /\ stored_ids = Range(mailbox)
    /\ stored_last_run = 1
    /\ Len(sheet) >= 2
    /\ Len(outbox) = 1

(***************************************************************************)
(* Properties of update_subdomains.py.                                     *)
(***************************************************************************)
\* the last run of the script went to its end
Updated == pure.fn = "update_subdomains" /\ clock >= 1 /\ pure.raised = "none"

\* the commerce names of the rows of a sheet, as main lays the rows out
CommerceColumn(rows) == [r \in 2..Len(rows) |-> rows[r][1]]

\* C27: after a run of the script that went to its end, the sheet has its
\* header and its number of rows; when a commerce name of the sheet converts,
\* every commerce name is replaced by what the mapping gives for it (the
\* subdomain of the name, or the name itself when it is not mapped), and
\* otherwise nothing is written; a second run converts nothing.
C27_CommerceConverted ==
    Updated =>
        /\ Len(sheet) = Len(pure.before)
        /\ sheet[1] = pure.before[1]
        /\ IF \E r \in 2..Len(pure.before) :
                 convert_commerce_to_subdomain(pure.before[r][1]) # pure.before[r][1]
           THEN CommerceColumn(sheet) =
                   [r \in 2..Len(sheet) |-> convert_commerce_to_subdomain(pure.before[r][1])]
           ELSE sheet = pure.before /\ ~pure.written
        /\ pure.completed = 2 => pure.converted_count = 0

=============================================================================
